---- MODULE Spec2Model ----
(***************************************************************************)
(* Model of the TED Talk Analyzer backend (backend/main.py and             *)
(* backend/database/crud.py): the job store, the in-memory progress log,   *)
(* the background pipeline process_video_background and the server-sent    *)
(* event generator of stream_progress.                                     *)
(*                                                                         *)
(* Units: timestamps are kept in tenths of a second and confidences in     *)
(* hundredths, so that 0.85 is 85 and 0.5 s is 5.                          *)
(***************************************************************************)
EXTENDS Integers, Sequences, FiniteSets, TLC

\* ------------------------------------------------------------------ bounds
\* Largest number of samples a stage adapter returns for one video.
MaxSamples == 1
\* Longest emotion and gesture lists a direct call of the correlator is given.
MaxEmotionSamples == 2
MaxGestureSamples == 4
\* The ids of the jobs a behaviour may create (uuid4 values, in creation order).
JobIds == {1}

\* range(100) of the initial wait loop of event_generator.
WaitPolls == 100

\* The readers of the progress stream.
Subscribers == {"s1", "s2"}
\* Original filenames an upload may carry.
FileNames == {"talk.mp4", "Error.mp4"}
\* str(e) of the exceptions a stage adapter or a store call may raise.
ExceptionTexts == {"", "boom"}
\* Outcomes of the LLM calls inside the content adapters.
LLMOutcomes == {"ok", "llm_failed"}
\* The store calls of analyze_video that may raise.
UploadFailures == {"none", "create_video", "create_analysis", "update_video_status"}

\* The inputs a specification draws from: uploads (names, contents, failures),
\* LLM outcomes and exception texts.
AllInputs ==
  [names |-> FileNames, contents |-> 0..MaxSamples, failures |-> UploadFailures,
   outcomes |-> LLMOutcomes, texts |-> ExceptionTexts, jobs |-> JobIds]
\* Inputs of the streaming specification: what the progress log depends on.
StreamInputs ==
  [names |-> FileNames, contents |-> {MaxSamples}, failures |-> {"none"},
   outcomes |-> {"ok"}, texts |-> {"boom"}, jobs |-> JobIds]
\* Inputs of the specification of two concurrent jobs.
PairInputs ==
  [names |-> FileNames, contents |-> {MaxSamples}, failures |-> {"none"},
   outcomes |-> {"ok"}, texts |-> {"boom"}, jobs |-> {1, 2}]

\* ------------------------------------------------------- optional values
None == <<>>
Some(x) == <<x>>
\* Python truthiness of an Optional[str]: None and "" are both false.
Truthy(opt) == opt # None /\ opt[1] # ""

\* ---------------------------------------------------------------- state
VARIABLES
  videos,            \* table videos:      id -> row
  analyses,          \* table analyses:    id -> row
  emotions,          \* table emotions:    analysis id -> rows in insert order
  gestures,          \* table gestures
  transcripts,       \* table transcripts
  llm_insights,      \* table llm_insights
  key_moments,       \* table key_moments
  files,             \* uploads directory: stored filename -> content
  clock,             \* wall clock in seconds, as datetime.now() reads it
  progress_updates,  \* dict analysis id -> list of messages
  analysis_results,  \* dict analysis id -> cached report
  analysis_errors,   \* dict analysis id -> str(e)
  pc,                \* analysis id -> position of its background task
  local,             \* analysis id -> local variables of its background task
  calls,             \* analysis id -> adapter and persistence calls made so far
  sub,               \* subscriber -> state of its event_generator
  response,          \* the reply to the latest HTTP request, with the request
  frame              \* arguments and results of a direct call of the correlator

vars == <<videos, analyses, emotions, gestures, transcripts, llm_insights, key_moments,
          files, clock, progress_updates, analysis_results, analysis_errors,
          pc, local, calls, sub, response, frame>>

\* ------------------------------------------------------------- messages
\* A message is the sequence of its words.  Lower is str.lower on a word and
\* HasError is the test "error" in word for a lower-cased word.
Lower(w) ==
  CASE w = "Error" -> "error"
    [] w = "Error.mp4" -> "error.mp4"
    [] w = "Analysis" -> "analysis"
    [] w = "AI" -> "ai"
    [] w = "Processing" -> "processing"
    [] w = "Uploading" -> "uploading"
    [] w = "Video" -> "video"
    [] w = "Analyzing" -> "analyzing"
    [] w = "Detected" -> "detected"
    [] w = "Extracting" -> "extracting"
    [] w = "Audio" -> "audio"
    [] w = "Transcribed" -> "transcribed"
    [] w = "Performing" -> "performing"
    [] w = "Generating" -> "generating"
    [] w = "Saving" -> "saving"
    [] OTHER -> w

HasError(w) == w \in {"error", "error.mp4"}

\* "Analysis completed" in msg  (case-sensitive, main.py:123)
HasAnalysisCompleted(msg) ==
  \E i \in 1..(Len(msg) - 1) : msg[i] = "Analysis" /\ msg[i + 1] = "completed"

\* "error" in msg.lower()  (main.py:123)
HasErrorLower(msg) == \E i \in 1..Len(msg) : HasError(Lower(msg[i]))

IsSentinel(msg) == HasAnalysisCompleted(msg) \/ HasErrorLower(msg)

\* any(... for msg in messages)  (main.py:123)
AnySentinel(messages) == \E i \in 1..Len(messages) : IsSentinel(messages[i])

Count(n) == IF n = 0 THEN "0" ELSE IF n = 1 THEN "1" ELSE IF n = 2 THEN "2" ELSE "many"

MsgUploading(filename) == <<"Uploading", "video:", filename>>
MsgUploaded == <<"Video", "uploaded", "successfully">>
MsgProcessing(path) == <<"Processing", "video:", "analysis", path.name>>
MsgAnalyzing == <<"Analyzing", "emotions", "and", "gestures">>
MsgEmotions(n) == <<"Detected", Count(n), "emotion", "samples">>
MsgGestures(n) == <<"Detected", Count(n), "gestures">>
MsgExtracting == <<"Extracting", "and", "transcribing", "audio">>
MsgExtracted == <<"Audio", "extracted", "successfully">>
MsgTranscribed(n) == <<"Transcribed", Count(n), "segments">>
MsgPerforming == <<"Performing", "AI", "content", "analysis">>
MsgAIDone == <<"AI", "analysis", "completed">>
MsgGenerating == <<"Generating", "AI", "summary">>
MsgSummaryDone == <<"AI", "summary", "generated">>
MsgSaving == <<"Saving", "results", "to", "database">>
MsgCompleted == <<"Analysis", "completed", "successfully!">>
MsgError(text) == <<"Error", "processing", "video:", text>>

\* Variant: the new message is put in front of the list of the job.
add_progress_prepending(log, id, message) ==
  IF id \in DOMAIN log
    THEN [log EXCEPT ![id] = <<message>> \o @]
    ELSE (id :> <<message>>) @@ log

\* Variant: the list of the job is replaced by the new message.
add_progress_overwriting(log, id, message) == (id :> <<message>>) @@ log

\* add_progress(analysis_id, message)
add_progress(log, id, message) ==
  IF id \in DOMAIN log
    THEN [log EXCEPT ![id] = Append(@, message)]
    ELSE (id :> <<message>>) @@ log


\* ------------------------------------------------------ stage adapters
\* The placeholder detectors sample once per second (emotions) and once per
\* two seconds (gestures); content is the number of samples the file yields.
EmotionLabel(i) == IF i % 2 = 1 THEN "happy" ELSE "serious"
EmotionConfidence(i) == IF i % 2 = 1 THEN 90 ELSE 80

\* VideoProcessor.analyze_emotions
analyze_emotions(content) ==
  [i \in 1..content |->
     [time |-> 10 * i, emotion |-> EmotionLabel(i), confidence |-> EmotionConfidence(i)]]

\* VideoProcessor.analyze_gestures with gestures_list[0] of _classify_gesture
analyze_gestures(content) ==
  [i \in 1..content |->
     [time |-> 20 * i, type |-> "hand_raise",
      description |-> "Raised hands for emphasis", confidence |-> 85]]

\* AudioProcessor.transcribe
transcribe(content) ==
  [i \in 1..content |->
     [time |-> 50 * (i - 1), end_time |-> 50 * i, text |-> "segment", confidence |-> 0]]

\* LLMAnalyzer.analyze_content: the parsed LLM answer, or the fallback
\* structure of the except branch.
analyze_content(transcript, outcome) ==
  IF outcome = "ok"
    THEN [main_topics |-> <<"Leadership">>,
          rhetorical_techniques |-> <<"Metaphor">>,
          argument_structure |-> "linear",
          persuasive_elements |-> <<"Statistics">>,
          persuasion_score |-> 85,
          overall_tone |-> "Inspirational"]
    ELSE [main_topics |-> <<"Climate change", "Individual action", "Hope">>,
          rhetorical_techniques |-> <<"Repetition", "Emotional appeal", "Data citation">>,
          argument_structure |-> "Problem - Evidence - Solution - Call to action",
          persuasive_elements |-> <<"Personal stories", "Data visualization", "Emotional connection">>,
          persuasion_score |-> 80,
          overall_tone |-> "Urgent yet hopeful with strong call to action"]

\* LLMAnalyzer.generate_summary
generate_summary(transcript, emotion_data, gesture_data, outcome) ==
  IF outcome = "ok" THEN "summary" ELSE "Summary generation failed."

\* ------------------------------------------------------------ correlator
\* Python round() of a value in tenths: to the nearest whole, ties to even.
Round(t) ==
  LET q == t \div 10
      r == t % 10
  IN  IF r < 5 THEN 10 * q
      ELSE IF r > 5 THEN 10 * (q + 1)
      ELSE IF q % 2 = 0 THEN 10 * q ELSE 10 * (q + 1)

\* Variant: x is inserted in front of the elements of equal key.
RECURSIVE InsertByTimeUnstable(_, _)
InsertByTimeUnstable(sorted, x) ==
  IF sorted = <<>> THEN <<x>>
  ELSE IF sorted[Len(sorted)].time < x.time THEN Append(sorted, x)
  ELSE Append(InsertByTimeUnstable(SubSeq(sorted, 1, Len(sorted) - 1), x),
              sorted[Len(sorted)])

\* Insert x behind the last element whose key is <= the key of x.
RECURSIVE InsertByTime(_, _)
InsertByTime(sorted, x) ==
  IF sorted = <<>> THEN <<x>>
  ELSE IF sorted[Len(sorted)].time <= x.time THEN Append(sorted, x)
  ELSE Append(InsertByTime(SubSeq(sorted, 1, Len(sorted) - 1), x), sorted[Len(sorted)])

\* sorted(key_moments, key=lambda x: x["time"]): stable
RECURSIVE SortedByTime(_)
SortedByTime(s) ==
  IF s = <<>> THEN <<>>
  ELSE InsertByTime(SortedByTime(SubSeq(s, 1, Len(s) - 1)), s[Len(s)])

EmotionMoment(e) ==
  [time |-> Round(e.time), description |-> <<"Peak", e.emotion, "emotion detected">>,
   type |-> "emotion"]

GestureMoment(g) ==
  [time |-> Round(g.time), description |-> <<g.description>>, type |-> "gesture"]

\* Variant: a confidence of exactly 0.85 counts as a peak.
IsPeakInclusive(e) == (IF "confidence" \in DOMAIN e THEN e.confidence ELSE 0) >= 85

\* emotion.get("confidence", 0) > 0.85
IsPeak(e) == (IF "confidence" \in DOMAIN e THEN e.confidence ELSE 0) > 85

\* Variant: every gesture contributes a moment.
identify_key_moments_all_gestures(emotion_data, gesture_data, transcript) ==
  LET peaks == SelectSeq(emotion_data, IsPeak)
  IN  SortedByTime([i \in 1..Len(peaks) |-> EmotionMoment(peaks[i])]
                   \o [i \in 1..Len(gesture_data) |-> GestureMoment(gesture_data[i])])

\* identify_key_moments(emotions, gestures, transcript)
identify_key_moments(emotion_data, gesture_data, transcript) ==
  LET peaks == SelectSeq(emotion_data, IsPeak)
      first == SubSeq(gesture_data, 1, IF Len(gesture_data) < 3 THEN Len(gesture_data) ELSE 3)
  IN  SortedByTime([i \in 1..Len(peaks) |-> EmotionMoment(peaks[i])]
                   \o [i \in 1..Len(first) |-> GestureMoment(first[i])])

RECURSIVE MaxTime(_)
MaxTime(s) ==
  IF Len(s) = 1 THEN s[1].time
  ELSE LET m == MaxTime(SubSeq(s, 1, Len(s) - 1))
       IN  IF s[Len(s)].time > m THEN s[Len(s)].time ELSE m

\* max([e["time"] for e in emotion_data]) if emotion_data else 0
total_duration_of(emotion_data) == IF emotion_data # <<>> THEN MaxTime(emotion_data) ELSE 0

\* Variant: the labels are listed without removing duplicates.
list_keeping_duplicates(xs) == xs

\* list(set(xs)): every distinct element once.  The order of the list is the
\* iteration order of the set, which Python leaves open; the model lists the
\* elements by first occurrence.
RECURSIVE list_set(_)
list_set(xs) ==
  IF xs = <<>> THEN <<>>
  ELSE LET init == list_set(SubSeq(xs, 1, Len(xs) - 1))
           x == xs[Len(xs)]
       IN  IF \E i \in 1..Len(init) : init[i] = x THEN init ELSE Append(init, x)

\* list(set([e["emotion"] for e in emotions]))
emotional_range_of(emotion_data) ==
  list_set([i \in 1..Len(emotion_data) |-> emotion_data[i].emotion])

\* llm_insights.get(...) on None raises AttributeError
correlate_raises(insights) == insights = None

\* correlate_analysis(emotions, gestures, transcript, llm_insights), for
\* insights that are a dict
correlate_analysis(emotion_data, gesture_data, transcript, insights) ==
  [emotions |-> emotion_data,
   gestures |-> gesture_data,
   transcript |-> transcript,
   llm_insights |-> insights,
   summary |->
     [total_duration |-> IF emotion_data # <<>> THEN Round(MaxTime(emotion_data)) ELSE 0,
      emotional_range |-> emotional_range_of(emotion_data),
      key_moments |-> identify_key_moments(emotion_data, gesture_data, transcript),
      top_themes |-> IF "main_topics" \in DOMAIN insights THEN insights.main_topics ELSE <<>>]]


\* ------------------------------------------------------------- job store
\* Variant: every row is given the same id.
FreshIdRepeated(table) == 1

\* The id the database gives the next row of a table (uuid4: never reused).
FreshId(table) == Cardinality(DOMAIN table) + 1

RowsOf(table, id) == IF id \in DOMAIN table THEN table[id] ELSE <<>>

\* crud.create_video (status PENDING)
create_video(db, original_filename, stored_filename) ==
  (FreshId(db) :> [original_filename |-> original_filename,
                   stored_filename |-> stored_filename,
                   status |-> "pending",
                   processed_at |-> None]) @@ db

\* unique=True on videos.stored_filename
StoredFilenameTaken(db, stored_filename) ==
  \E v \in DOMAIN db : db[v].stored_filename = stored_filename

\* crud.update_video_status
update_video_status(db, video_id, status) ==
  IF video_id \in DOMAIN db
    THEN [db EXCEPT ![video_id] =
            [@ EXCEPT !.status = status,
                      !.processed_at = IF status = "completed" THEN Some("utcnow") ELSE @]]
    ELSE db

\* crud.create_analysis (status PENDING, progress 0)
create_analysis(db, video_id) ==
  (FreshId(db) :> [video_id |-> video_id,
                   status |-> "pending",
                   progress |-> 0,
                   error_message |-> None,
                   completed_at |-> None,
                   total_duration |-> None]) @@ db

\* Variant: a call without a progress argument stores progress 0.
update_analysis_status_resetting(db, analysis_id, status, progress, error_message) ==
  IF analysis_id \in DOMAIN db
    THEN LET a0 == db[analysis_id]
             a1 == [a0 EXCEPT !.status = status,
                              !.progress = IF progress # None THEN progress[1] ELSE 0]
             a3 == IF Truthy(error_message)
                     THEN [a1 EXCEPT !.error_message = error_message] ELSE a1
             a4 == IF status = "completed"
                     THEN [a3 EXCEPT !.completed_at = Some("utcnow"), !.progress = 100]
                     ELSE a3
         IN  [db EXCEPT ![analysis_id] = a4]
    ELSE db

\* crud.update_analysis_status(db, analysis_id, status, progress, error_message)
update_analysis_status(db, analysis_id, status, progress, error_message) ==
  IF analysis_id \in DOMAIN db
    THEN LET a0 == db[analysis_id]
             a1 == [a0 EXCEPT !.status = status]
             a2 == IF progress # None THEN [a1 EXCEPT !.progress = progress[1]] ELSE a1
             a3 == IF Truthy(error_message)
                     THEN [a2 EXCEPT !.error_message = error_message] ELSE a2
             a4 == IF status = "completed"
                     THEN [a3 EXCEPT !.completed_at = Some("utcnow"), !.progress = 100]
                     ELSE a3
         IN  [db EXCEPT ![analysis_id] = a4]
    ELSE db

\* Variant: the duration is not stored.
set_analysis_duration_skipping(db, analysis_id, duration) == db

\* crud.set_analysis_duration
set_analysis_duration(db, analysis_id, duration) ==
  IF analysis_id \in DOMAIN db
    THEN [db EXCEPT ![analysis_id].total_duration = Some(duration)]
    ELSE db

\* The rows of one bulk call are appended to the table in one commit.
BulkSave(table, analysis_id, rows) ==
  (analysis_id :> (RowsOf(table, analysis_id) \o rows)) @@ table

\* emotions_for_db (main.py:187) and crud.create_emotions_bulk
emotions_for_db(emotion_data) ==
  [i \in 1..Len(emotion_data) |->
     [timestamp |-> emotion_data[i].time,
      emotion |-> emotion_data[i].emotion,
      confidence |-> emotion_data[i].confidence]]

create_emotions_bulk(table, analysis_id, emotions_data) ==
  BulkSave(table, analysis_id, emotions_data)

\* gestures_for_db (main.py:198) and crud.create_gestures_bulk
gestures_for_db(gesture_data) ==
  [i \in 1..Len(gesture_data) |->
     [timestamp |-> gesture_data[i].time,
      type |-> gesture_data[i].type,
      description |-> gesture_data[i].description,
      confidence |-> gesture_data[i].confidence]]

create_gestures_bulk(table, analysis_id, gestures_data) ==
  BulkSave(table, analysis_id, gestures_data)

\* transcripts_for_db (main.py:210) and crud.create_transcripts_bulk
transcripts_for_db(transcript) ==
  [i \in 1..Len(transcript) |->
     [segment_index |-> i - 1,
      start_time |-> transcript[i].time,
      end_time |-> IF "end_time" \in DOMAIN transcript[i]
                     THEN transcript[i].end_time ELSE transcript[i].time + 50,
      text |-> transcript[i].text,
      confidence |-> IF "confidence" \in DOMAIN transcript[i]
                       THEN Some(transcript[i].confidence) ELSE None]]

create_transcripts_bulk(table, analysis_id, transcripts_data) ==
  BulkSave(table, analysis_id, transcripts_data)

\* insights_data.get(key, default)
Get(d, key, default) == IF key \in DOMAIN d THEN d[key] ELSE default

\* crud.create_llm_insight
create_llm_insight(table, analysis_id, insights_data) ==
  BulkSave(table, analysis_id,
           <<[main_topics |-> Get(insights_data, "main_topics", <<>>),
              rhetorical_techniques |-> Get(insights_data, "rhetorical_techniques", <<>>),
              argument_structure |-> Get(insights_data, "argument_structure", ""),
              persuasive_elements |-> Get(insights_data, "persuasive_elements", <<>>),
              persuasion_score |-> Get(insights_data, "persuasion_score", 50),
              overall_tone |-> Get(insights_data, "overall_tone", "Neutral"),
              transcript_summary |-> Get(insights_data, "transcript_summary", "")]>>)

\* key_moments_for_db (main.py:227) and crud.create_key_moments_bulk
key_moments_for_db(moments) ==
  [i \in 1..Len(moments) |->
     [timestamp |-> moments[i].time,
      description |-> moments[i].description,
      type |-> moments[i].type]]

create_key_moments_bulk(table, analysis_id, moments_data) ==
  BulkSave(table, analysis_id, moments_data)

\* ----------------------------------------------------------------- Init
Init ==
  /\ videos = <<>>
  /\ analyses = <<>>
  /\ emotions = <<>>
  /\ gestures = <<>>
  /\ transcripts = <<>>
  /\ llm_insights = <<>>
  /\ key_moments = <<>>
  /\ files = <<>>
  /\ clock = 0
  /\ progress_updates = <<>>
  /\ analysis_results = <<>>
  /\ analysis_errors = <<>>
  /\ pc = <<>>
  /\ local = <<>>
  /\ calls = <<>>
  /\ sub = [s \in Subscribers |->
              [pc |-> "idle", analysis_id |-> 0, last_sent_index |-> 0,
               polls |-> 0, out |-> <<>>]]
  /\ response = None
  /\ frame = None

\* -------------------------------------------------- POST /api/analyze
\* stored_filename = f"analysis_{timestamp}_{video.filename}"
StoredFilename(ts, filename) == [ts |-> ts, name |-> filename]

\* Variant: every content type is accepted.
is_video_lenient(content_type) == TRUE

\* video.content_type.startswith('video/')
is_video(content_type) == content_type = "video"

\* A reply: the request it answers, the HTTP status code and the JSON body.
Reply(request, code, body) == Some([request |-> request, code |-> code, body |-> body])

\* except Exception as e: raise HTTPException(status_code=500, detail=str(e));
\* raised names the exception whose str(e) is the detail.
ServerError(request, raised) == Reply(request, 500, [detail |-> raised])

\* analyze_video: the whole handler.  failAt names the store call that raises
\* ("none" when all succeed); every exception ends in the 500 response.
analyze_video(filename, content_type, content, failAt) ==
  LET stored == StoredFilename(clock, filename)
      video_id == FreshId(videos)
      analysis_id == FreshId(analyses)
      videos1 == create_video(videos, filename, stored)
      request == [op |-> "analyze_video", content_type |-> content_type]
  IN
  /\ UNCHANGED <<emotions, gestures, transcripts, llm_insights, key_moments, clock,
                 analysis_results, analysis_errors, sub, frame>>
  /\ IF ~is_video(content_type)
       THEN \* HTTPException(400) raised inside the try block
            /\ response' = ServerError(request, "HTTPException(400, File must be a video)")
            /\ UNCHANGED <<videos, analyses, files, progress_updates, pc, local, calls>>
       ELSE
         /\ files' = (stored :> content) @@ files
         /\ IF failAt = "create_video" \/ StoredFilenameTaken(videos, stored)
              THEN /\ response' = ServerError(request, "create_video")
                   /\ UNCHANGED <<videos, analyses, progress_updates, pc, local, calls>>
            ELSE IF failAt = "create_analysis"
              THEN /\ videos' = videos1
                   /\ response' = ServerError(request, "create_analysis")
                   /\ UNCHANGED <<analyses, progress_updates, pc, local, calls>>
            ELSE
              /\ analyses' = create_analysis(analyses, video_id)
              /\ progress_updates' =
                   add_progress(add_progress(progress_updates, analysis_id,
                                             MsgUploading(filename)),
                                analysis_id, MsgUploaded)
              /\ IF failAt = "update_video_status"
                   THEN /\ videos' = videos1
                        /\ response' = ServerError(request, "update_video_status")
                        /\ UNCHANGED <<pc, local, calls>>
                   ELSE /\ videos' = update_video_status(videos1, video_id, "processing")
                        /\ response' = Reply(request, 200,
                                             [analysis_id |-> analysis_id,
                                              status |-> "processing"])
                        \* background_tasks.add_task(process_video_background, ...)
                        /\ pc' = (analysis_id :> "L137") @@ pc
                        /\ local' = (analysis_id :>
                                       [video_id |-> video_id, video_path |-> stored,
                                        emotion_data |-> None, gesture_data |-> None,
                                        transcript |-> None, llm_insights |-> None,
                                        exc |-> None]) @@ local
                        /\ calls' = (analysis_id :> <<>>) @@ calls

\* One upload request, while ids are left for the rows it creates.
AnalyzeVideo(in) ==
  /\ FreshId(videos) \in in.jobs
  /\ \E filename \in in.names, content_type \in {"video", "text"},
        content \in in.contents, failAt \in in.failures :
       analyze_video(filename, content_type, content, failAt)


\* ------------------------------------------ process_video_background
\* pc[j] names the line of main.py the task of analysis j executes next;
\* "done" is a task that has returned and "crashed" one whose exception left
\* the handler (db.close() of the finally block has run in both).
UnchangedDetail == UNCHANGED <<emotions, gestures, transcripts, llm_insights, key_moments>>
UnchangedOutside == UNCHANGED <<files, clock, sub, response, frame>>

At(j, line) == j \in DOMAIN pc /\ pc[j] = line
Goto(j, line) == pc' = [pc EXCEPT ![j] = line]

\* An exception inside the try block: control moves to the except clause.
\* Its text is first read by str(e) at line 253 and is drawn there.
Raises(j) ==
  /\ pc' = [pc EXCEPT ![j] = "L253"]
  /\ UNCHANGED local

Called(j, name, ok) == calls' = [calls EXCEPT ![j] = Append(@, [name |-> name, ok |-> ok])]

\* A statement add_progress(str(analysis_id), message) on its own.
LogLine(j, line, message, next) ==
  /\ At(j, line)
  /\ progress_updates' = add_progress(progress_updates, j, message)
  /\ Goto(j, next)
  /\ UNCHANGED <<videos, analyses, analysis_results, analysis_errors, local, calls>>
  /\ UnchangedDetail /\ UnchangedOutside

\* crud.update_analysis_status(db, analysis_id, AnalysisStatus.PROCESSING, progress=p)
SetProcessing(j, line, p, next) ==
  /\ At(j, line)
  /\ \/ /\ analyses' = update_analysis_status(analyses, j, "processing", Some(p), None)
        /\ Goto(j, next)
        /\ UNCHANGED local
     \/ /\ Raises(j)
        /\ UNCHANGED analyses
  /\ UNCHANGED <<videos, progress_updates, analysis_results, analysis_errors, calls>>
  /\ UnchangedDetail /\ UnchangedOutside

\* A stage adapter call followed by the add_progress that reports it.
StageCall(j, line, name, field, value, message, next) ==
  /\ At(j, line)
  /\ \/ /\ local' = [local EXCEPT ![j][field] = value]
        /\ progress_updates' = add_progress(progress_updates, j, message)
        /\ Called(j, name, TRUE)
        /\ Goto(j, next)
     \/ /\ Raises(j)
        /\ Called(j, name, FALSE)
        /\ UNCHANGED progress_updates
  /\ UNCHANGED <<videos, analyses, analysis_results, analysis_errors>>
  /\ UnchangedDetail /\ UnchangedOutside

Content(j) == files[local[j].video_path]

StartRun(j) == LogLine(j, "L137", MsgProcessing(local[j].video_path), "L140")

MarkProcessing(j) == SetProcessing(j, "L140", 10, "L143")

LogAnalyzing(j) == LogLine(j, "L143", MsgAnalyzing, "L144")

AnalyzeEmotions(j) ==
  StageCall(j, "L144", "analyze_emotions", "emotion_data", analyze_emotions(Content(j)),
            MsgEmotions(Len(analyze_emotions(Content(j)))), "L147")

Progress30(j) == SetProcessing(j, "L147", 30, "L149")

AnalyzeGestures(j) ==
  StageCall(j, "L149", "analyze_gestures", "gesture_data", analyze_gestures(Content(j)),
            MsgGestures(Len(analyze_gestures(Content(j)))), "L152")

Progress40(j) == SetProcessing(j, "L152", 40, "L155")

LogExtracting(j) == LogLine(j, "L155", MsgExtracting, "L156")

\* audio_path is derived from video_path and is not kept in the model
ExtractAudio(j) ==
  StageCall(j, "L156", "extract_audio", "transcript", None, MsgExtracted, "L159")

\* Variant: a failed transcription is tried again.
TranscribeRetrying(j) ==
  /\ At(j, "L159")
  /\ \/ /\ local' = [local EXCEPT ![j].transcript = transcribe(Content(j))]
        /\ progress_updates' =
             add_progress(progress_updates, j, MsgTranscribed(Len(transcribe(Content(j)))))
        /\ Called(j, "transcribe", TRUE)
        /\ Goto(j, "L162")
     \/ /\ Len(calls[j]) < 5
        /\ Called(j, "transcribe", FALSE)
        /\ UNCHANGED <<pc, local, progress_updates>>
  /\ UNCHANGED <<videos, analyses, analysis_results, analysis_errors>>
  /\ UnchangedDetail /\ UnchangedOutside

Transcribe(j) ==
  StageCall(j, "L159", "transcribe", "transcript", transcribe(Content(j)),
            MsgTranscribed(Len(transcribe(Content(j)))), "L162")

Progress60(j) == SetProcessing(j, "L162", 60, "L165")

LogPerforming(j) == LogLine(j, "L165", MsgPerforming, "L166")

\* Variant: a failure of the LLM call leaves the adapter as an exception.
AnalyzeContentRaising(j, outcomes) ==
  /\ At(j, "L166")
  /\ \E outcome \in outcomes :
       IF outcome = "ok"
         THEN /\ local' = [local EXCEPT ![j].llm_insights =
                             analyze_content(local[j].transcript, outcome)]
              /\ progress_updates' = add_progress(progress_updates, j, MsgAIDone)
              /\ Called(j, "analyze_content", TRUE)
              /\ Goto(j, "L169")
         ELSE /\ Raises(j)
              /\ Called(j, "analyze_content", FALSE)
              /\ UNCHANGED progress_updates
  /\ UNCHANGED <<videos, analyses, analysis_results, analysis_errors>>
  /\ UnchangedDetail /\ UnchangedOutside

\* llm_analyzer.analyze_content swallows its failures and returns the fallback
AnalyzeContent(j, outcomes) ==
  /\ At(j, "L166")
  /\ \E outcome \in outcomes :
       local' = [local EXCEPT ![j].llm_insights =
                   analyze_content(local[j].transcript, outcome)]
  /\ progress_updates' = add_progress(progress_updates, j, MsgAIDone)
  /\ Called(j, "analyze_content", TRUE)
  /\ Goto(j, "L169")
  /\ UNCHANGED <<videos, analyses, analysis_results, analysis_errors>>
  /\ UnchangedDetail /\ UnchangedOutside

Progress75(j) == SetProcessing(j, "L169", 75, "L172")

LogGenerating(j) == LogLine(j, "L172", MsgGenerating, "L173")

\* llm_insights["transcript_summary"] = transcript_summary
WithSummary(insights, summary) ==
  [k \in DOMAIN insights \cup {"transcript_summary"} |->
     IF k = "transcript_summary" THEN summary ELSE insights[k]]

GenerateSummary(j, outcomes) ==
  /\ At(j, "L173")
  /\ \E outcome \in outcomes :
       local' = [local EXCEPT ![j].llm_insights =
                   WithSummary(@, generate_summary(local[j].transcript,
                                                   local[j].emotion_data,
                                                   local[j].gesture_data, outcome))]
  /\ progress_updates' = add_progress(progress_updates, j, MsgSummaryDone)
  /\ Called(j, "generate_summary", TRUE)
  /\ Goto(j, "L177")
  /\ UNCHANGED <<videos, analyses, analysis_results, analysis_errors>>
  /\ UnchangedDetail /\ UnchangedOutside

Progress85(j) == SetProcessing(j, "L177", 85, "L180")

LogSaving(j) == LogLine(j, "L180", MsgSaving, "L184")


\* One persistence call of step 4: it commits and returns, or it raises and
\* nothing of it is stored.
Persist(j, line, name, effect, next) ==
  /\ At(j, line)
  /\ \/ /\ effect
        /\ Called(j, name, TRUE)
        /\ Goto(j, next)
        /\ UNCHANGED local
     \/ /\ Raises(j)
        /\ Called(j, name, FALSE)
        /\ UNCHANGED <<analyses, emotions, gestures, transcripts, llm_insights, key_moments>>
  /\ UNCHANGED <<videos, progress_updates, analysis_results, analysis_errors>>
  /\ UnchangedOutside

\* ForeignKey("analyses.id"): a detail row is stored only for an analysis
\* that exists; the insert raises otherwise.
ForeignKey(j) == j \in DOMAIN analyses

SetDuration(j) ==
  Persist(j, "L184", "set_analysis_duration",
          /\ analyses' = set_analysis_duration(analyses, j,
                                               total_duration_of(local[j].emotion_data))
          /\ UnchangedDetail,
          "L195")

\* Variant: a failure of create_emotions_bulk is swallowed.
SaveEmotionsSwallowing(j) ==
  /\ At(j, "L195")
  /\ \/ /\ ForeignKey(j)
        /\ emotions' = create_emotions_bulk(emotions, j,
                                            emotions_for_db(local[j].emotion_data))
        /\ Called(j, "create_emotions_bulk", TRUE)
     \/ /\ Called(j, "create_emotions_bulk", FALSE)
        /\ UNCHANGED emotions
  /\ Goto(j, "L207")
  /\ UNCHANGED <<videos, analyses, gestures, transcripts, llm_insights, key_moments, local,
                 progress_updates, analysis_results, analysis_errors>>
  /\ UnchangedOutside

SaveEmotions(j) ==
  Persist(j, "L195", "create_emotions_bulk",
          /\ ForeignKey(j)
          /\ emotions' = create_emotions_bulk(emotions, j,
                                              emotions_for_db(local[j].emotion_data))
          /\ UNCHANGED <<analyses, gestures, transcripts, llm_insights, key_moments>>,
          "L207")

SaveGestures(j) ==
  Persist(j, "L207", "create_gestures_bulk",
          /\ ForeignKey(j)
          /\ gestures' = create_gestures_bulk(gestures, j,
                                              gestures_for_db(local[j].gesture_data))
          /\ UNCHANGED <<analyses, emotions, transcripts, llm_insights, key_moments>>,
          "L220")

SaveTranscripts(j) ==
  Persist(j, "L220", "create_transcripts_bulk",
          /\ ForeignKey(j)
          /\ transcripts' = create_transcripts_bulk(transcripts, j,
                                                    transcripts_for_db(local[j].transcript))
          /\ UNCHANGED <<analyses, emotions, gestures, llm_insights, key_moments>>,
          "L223")

\* unique=True on llm_insights.analysis_id: a second row for one analysis is
\* rejected.
UniqueInsight(j) == RowsOf(llm_insights, j) = <<>>

\* Variant: a failure of create_llm_insight is swallowed.
SaveInsightSwallowing(j) ==
  /\ At(j, "L223")
  /\ \/ /\ ForeignKey(j)
        /\ UniqueInsight(j)
        /\ llm_insights' = create_llm_insight(llm_insights, j, local[j].llm_insights)
        /\ Called(j, "create_llm_insight", TRUE)
     \/ /\ Called(j, "create_llm_insight", FALSE)
        /\ UNCHANGED llm_insights
  /\ Goto(j, "L235")
  /\ UNCHANGED <<videos, analyses, emotions, gestures, transcripts, key_moments, local,
                 progress_updates, analysis_results, analysis_errors>>
  /\ UnchangedOutside

SaveInsight(j) ==
  Persist(j, "L223", "create_llm_insight",
          /\ ForeignKey(j)
          /\ UniqueInsight(j)
          /\ llm_insights' = create_llm_insight(llm_insights, j, local[j].llm_insights)
          /\ UNCHANGED <<analyses, emotions, gestures, transcripts, key_moments>>,
          "L235")

\* Variant: a failure of create_key_moments_bulk is swallowed.
SaveKeyMomentsSwallowing(j) ==
  /\ At(j, "L235")
  /\ \/ /\ key_moments' =
             create_key_moments_bulk(key_moments, j,
               key_moments_for_db(identify_key_moments(local[j].emotion_data,
                                                       local[j].gesture_data,
                                                       local[j].transcript)))
        /\ Called(j, "create_key_moments_bulk", TRUE)
     \/ /\ Called(j, "create_key_moments_bulk", FALSE)
        /\ UNCHANGED key_moments
  /\ Goto(j, "L238")
  /\ UNCHANGED <<videos, analyses, emotions, gestures, transcripts, llm_insights, local,
                 progress_updates, analysis_results, analysis_errors>>
  /\ UnchangedOutside

SaveKeyMoments(j) ==
  Persist(j, "L235", "create_key_moments_bulk",
          /\ ForeignKey(j)
          /\ key_moments' =
               create_key_moments_bulk(key_moments, j,
                 key_moments_for_db(identify_key_moments(local[j].emotion_data,
                                                         local[j].gesture_data,
                                                         local[j].transcript)))
          /\ UNCHANGED <<analyses, emotions, gestures, transcripts, llm_insights>>,
          "L238")

\* crud.update_analysis_status(db, analysis_id, AnalysisStatus.COMPLETED, progress=100)
MarkCompleted(j) ==
  /\ At(j, "L238")
  /\ \/ /\ analyses' = update_analysis_status(analyses, j, "completed", Some(100), None)
        /\ Goto(j, "L241")
        /\ UNCHANGED local
     \/ /\ Raises(j)
        /\ UNCHANGED analyses
  /\ UNCHANGED <<videos, progress_updates, analysis_results, analysis_errors, calls>>
  /\ UnchangedDetail /\ UnchangedOutside

\* crud.update_video_status(db, video_id, VideoStatus.COMPLETED)
VideoCompleted(j) ==
  /\ At(j, "L241")
  /\ \/ /\ videos' = update_video_status(videos, local[j].video_id, "completed")
        /\ Goto(j, "L243")
        /\ UNCHANGED local
     \/ /\ Raises(j)
        /\ UNCHANGED videos
  /\ UNCHANGED <<analyses, progress_updates, analysis_results, analysis_errors, calls>>
  /\ UnchangedDetail /\ UnchangedOutside

LogCompleted(j) == LogLine(j, "L243", MsgCompleted, "L246")

\* analysis_results[str(analysis_id)] = {"data": correlate_analysis(...), ...};
\* the try block ends and the finally block closes the session.
CacheResults(j) ==
  /\ At(j, "L246")
  /\ analysis_results' =
       (j :> [data |-> correlate_analysis(local[j].emotion_data, local[j].gesture_data,
                                          local[j].transcript, local[j].llm_insights),
              video_path |-> local[j].video_path]) @@ analysis_results
  /\ Goto(j, "done")
  /\ UNCHANGED <<videos, analyses, progress_updates, analysis_errors, local, calls>>
  /\ UnchangedDetail /\ UnchangedOutside

\* Variant: the handler records the error without reporting it to the log.
HandlerLogSilent(j, texts) ==
  /\ At(j, "L253")
  /\ \E text \in texts :
       /\ local' = [local EXCEPT ![j].exc = Some(text)]
       /\ analysis_errors' = (j :> text) @@ analysis_errors
  /\ Goto(j, "L258")
  /\ UNCHANGED <<videos, analyses, analysis_results, calls, progress_updates>>
  /\ UnchangedDetail /\ UnchangedOutside

\* except Exception as e: add_progress(error_msg); analysis_errors[id] = str(e)
HandlerLog(j, texts) ==
  /\ At(j, "L253")
  /\ \E text \in texts :
       /\ local' = [local EXCEPT ![j].exc = Some(text)]
       /\ progress_updates' = add_progress(progress_updates, j, MsgError(text))
       /\ analysis_errors' = (j :> text) @@ analysis_errors
  /\ Goto(j, "L258")
  /\ UNCHANGED <<videos, analyses, analysis_results, calls>>
  /\ UnchangedDetail /\ UnchangedOutside

\* Variant: the handler removes the detail rows of the failed job.
HandlerStatusCleaning(j) ==
  /\ At(j, "L258")
  /\ \/ /\ analyses' = update_analysis_status(analyses, j, "failed", None, local[j].exc)
        /\ emotions' = [k \in DOMAIN emotions \ {j} |-> emotions[k]]
        /\ gestures' = [k \in DOMAIN gestures \ {j} |-> gestures[k]]
        /\ Goto(j, "L264")
     \/ /\ Goto(j, "crashed")
        /\ UNCHANGED <<analyses, emotions, gestures>>
  /\ UNCHANGED <<videos, progress_updates, analysis_results, analysis_errors, local, calls,
                 transcripts, llm_insights, key_moments>>
  /\ UnchangedOutside

\* crud.update_analysis_status(db, analysis_id, FAILED, error_message=str(e));
\* an exception raised here leaves the handler and the task.
HandlerStatus(j) ==
  /\ At(j, "L258")
  /\ \/ /\ analyses' = update_analysis_status(analyses, j, "failed", None, local[j].exc)
        /\ Goto(j, "L264")
     \/ /\ Goto(j, "crashed")
        /\ UNCHANGED analyses
  /\ UNCHANGED <<videos, progress_updates, analysis_results, analysis_errors, local, calls>>
  /\ UnchangedDetail /\ UnchangedOutside

\* Variant: the handler marks every video failed.
HandlerVideoAll(j) ==
  /\ At(j, "L264")
  /\ \/ /\ videos' = [v \in DOMAIN videos |-> [videos[v] EXCEPT !.status = "failed"]]
        /\ Goto(j, "done")
     \/ /\ Goto(j, "crashed")
        /\ UNCHANGED videos
  /\ UNCHANGED <<analyses, progress_updates, analysis_results, analysis_errors, local, calls>>
  /\ UnchangedDetail /\ UnchangedOutside

\* crud.update_video_status(db, video_id, VideoStatus.FAILED); print; finally
HandlerVideo(j) ==
  /\ At(j, "L264")
  /\ \/ /\ videos' = update_video_status(videos, local[j].video_id, "failed")
        /\ Goto(j, "done")
     \/ /\ Goto(j, "crashed")
        /\ UNCHANGED videos
  /\ UNCHANGED <<analyses, progress_updates, analysis_results, analysis_errors, local, calls>>
  /\ UnchangedDetail /\ UnchangedOutside

\* One step of the background task of analysis j.
Pipeline(j, in) ==
  \/ StartRun(j) \/ MarkProcessing(j) \/ LogAnalyzing(j) \/ AnalyzeEmotions(j)
  \/ Progress30(j) \/ AnalyzeGestures(j) \/ Progress40(j) \/ LogExtracting(j)
  \/ ExtractAudio(j) \/ Transcribe(j) \/ Progress60(j) \/ LogPerforming(j)
  \/ AnalyzeContent(j, in.outcomes) \/ Progress75(j) \/ LogGenerating(j)
  \/ GenerateSummary(j, in.outcomes) \/ Progress85(j) \/ LogSaving(j)
  \/ SetDuration(j) \/ SaveEmotions(j) \/ SaveGestures(j) \/ SaveTranscripts(j)
  \/ SaveInsight(j) \/ SaveKeyMoments(j) \/ MarkCompleted(j) \/ VideoCompleted(j)
  \/ LogCompleted(j) \/ CacheResults(j)
  \/ HandlerLog(j, in.texts) \/ HandlerStatus(j) \/ HandlerVideo(j)

Next ==
  \/ AnalyzeVideo(AllInputs)
  \/ \E j \in JobIds : Pipeline(j, AllInputs)

Spec == Init /\ [][Next]_vars

\* ------------------------------------- GET /api/progress/{analysis_id}
\* sub[s] is one run of event_generator: pc is its position, out the events
\* it has yielded so far.
Messages(s) == progress_updates[sub[s].analysis_id]
Present(s) == sub[s].analysis_id \in DOMAIN progress_updates

SubFrame == UNCHANGED <<videos, analyses, emotions, gestures, transcripts, llm_insights,
                        key_moments, files, clock, progress_updates, analysis_results,
                        analysis_errors, pc, local, calls, response, frame>>

\* A client opens the stream for an id; last_sent_index = 0
Subscribe(s, id) ==
  /\ sub[s].pc = "idle"
  /\ sub' = [sub EXCEPT ![s] = [@ EXCEPT !.pc = "wait", !.analysis_id = id,
                                         !.last_sent_index = 0]]
  /\ SubFrame

\* Variant: the stream is closed when the wait expires.
WaitForStartGivingUp(s) ==
  /\ sub[s].pc = "wait"
  /\ IF Present(s)
       THEN sub' = [sub EXCEPT ![s] = [@ EXCEPT !.pc = "poll", !.polls = 0]]
       ELSE IF sub[s].polls = WaitPolls
         THEN sub' = [sub EXCEPT ![s].pc = "done"]
         ELSE sub' = [sub EXCEPT ![s].polls = @ + 1]
  /\ SubFrame

\* for _ in range(100): if analysis_id in progress_updates: break; sleep(0.1)
\* polls counts the sleeps; the count of a loop left by break is not used
\* again and is dropped, the count of an exhausted loop stays at WaitPolls.
WaitForStart(s) ==
  /\ sub[s].pc = "wait"
  /\ IF Present(s)
       THEN sub' = [sub EXCEPT ![s] = [@ EXCEPT !.pc = "poll", !.polls = 0]]
       ELSE IF sub[s].polls = WaitPolls
         THEN sub' = [sub EXCEPT ![s].pc = "poll"]
         ELSE sub' = [sub EXCEPT ![s].polls = @ + 1]
  /\ SubFrame

\* while True: if analysis_id in progress_updates: messages = ...
\* else: await asyncio.sleep(0.5)
Poll(s) ==
  /\ sub[s].pc = "poll"
  /\ IF Present(s)
       THEN sub' = [sub EXCEPT ![s].pc = "send"]
       ELSE UNCHANGED sub
  /\ SubFrame

\* Variant: the index is advanced before the message is read.
SendSkipping(s) ==
  /\ sub[s].pc = "send"
  /\ IF sub[s].last_sent_index + 1 < Len(Messages(s))
       THEN sub' = [sub EXCEPT ![s] =
                      [@ EXCEPT !.out = Append(@, [message |-> Messages(s)[sub[s].last_sent_index + 2],
                                                   index |-> sub[s].last_sent_index]),
                                !.last_sent_index = @ + 1]]
       ELSE sub' = [sub EXCEPT ![s].pc = "check"]
  /\ SubFrame

\* Variant: the log is a queue, a sent message is taken off it.
SendConsuming(s) ==
  /\ sub[s].pc = "send"
  /\ IF Messages(s) # <<>>
       THEN /\ sub' = [sub EXCEPT ![s] =
                         [@ EXCEPT !.out = Append(@, [message |-> Messages(s)[1],
                                                      index |-> sub[s].last_sent_index]),
                                   !.last_sent_index = @ + 1]]
            /\ progress_updates' = [progress_updates EXCEPT ![sub[s].analysis_id] = Tail(@)]
       ELSE /\ sub' = [sub EXCEPT ![s].pc = "check"]
            /\ UNCHANGED progress_updates
  /\ UNCHANGED <<videos, analyses, emotions, gestures, transcripts, llm_insights,
                 key_moments, files, clock, analysis_results, analysis_errors,
                 pc, local, calls, response, frame>>

\* while last_sent_index < len(messages): yield {message, index}; index += 1
Send(s) ==
  /\ sub[s].pc = "send"
  /\ IF sub[s].last_sent_index < Len(Messages(s))
       THEN sub' = [sub EXCEPT ![s] =
                      [@ EXCEPT !.out = Append(@, [message |-> Messages(s)[sub[s].last_sent_index + 1],
                                                   index |-> sub[s].last_sent_index]),
                                !.last_sent_index = @ + 1]]
       ELSE sub' = [sub EXCEPT ![s].pc = "check"]
  /\ SubFrame

MsgDone == <<"DONE">>

\* "analysis completed" in msg.lower(): the match in any letter case.
HasAnalysisCompletedAnyCase(msg) ==
  \E i \in 1..(Len(msg) - 1) : Lower(msg[i]) = "analysis" /\ Lower(msg[i + 1]) = "completed"

\* Variant: the completion sentinel is matched in any letter case.
CheckAnyCase(s) ==
  /\ sub[s].pc = "check"
  /\ IF \E i \in 1..Len(Messages(s)) :
          HasAnalysisCompletedAnyCase(Messages(s)[i]) \/ HasErrorLower(Messages(s)[i])
       THEN sub' = [sub EXCEPT ![s] =
                      [@ EXCEPT !.out = Append(@, [message |-> MsgDone,
                                                   index |-> sub[s].last_sent_index]),
                                !.pc = "done"]]
       ELSE sub' = [sub EXCEPT ![s].pc = "send"]
  /\ SubFrame

\* if any(...): yield {'message': 'DONE', 'index': last_sent_index}; break
\* else: await asyncio.sleep(0.5) and back to the inner loop: the test of
\* line 113 holds from then on, since no entry is ever removed from
\* progress_updates.
Check(s) ==
  /\ sub[s].pc = "check"
  /\ IF AnySentinel(Messages(s))
       THEN sub' = [sub EXCEPT ![s] =
                      [@ EXCEPT !.out = Append(@, [message |-> MsgDone,
                                                   index |-> sub[s].last_sent_index]),
                                !.pc = "done"]]
       ELSE sub' = [sub EXCEPT ![s].pc = "send"]
  /\ SubFrame

\* The ids that have been returned to a client by POST /api/analyze.
ReturnedIds == DOMAIN pc

\* One step of subscriber s, which streams an id a client has been given.
Stream(s) ==
  \/ \E id \in ReturnedIds : Subscribe(s, id)
  \/ WaitForStart(s) \/ Poll(s) \/ Send(s) \/ Check(s)

NextStream ==
  \/ AnalyzeVideo(StreamInputs)
  \/ \E j \in JobIds : Pipeline(j, StreamInputs)
  \/ \E s \in Subscribers : Stream(s)

SpecStream == Init /\ [][NextStream]_vars


\* ------------------------------------------------ subscription to any id
\* One step of a running event_generator.
Running(s) == WaitForStart(s) \/ Poll(s) \/ Send(s) \/ Check(s)

\* One step of subscriber s, which may ask for any id, also one without a job.
Watch(s, ids) ==
  \/ \E id \in ids : Subscribe(s, id)
  \/ Running(s)

NextWatch ==
  \/ AnalyzeVideo(StreamInputs)
  \/ \E j \in StreamInputs.jobs : Pipeline(j, StreamInputs)
  \/ Watch("s1", StreamInputs.jobs)

SpecWatch == Init /\ [][NextWatch]_vars

\* The event loop resumes a generator whose sleep has ended and whose client
\* keeps reading.
SpecWatchFair == SpecWatch /\ WF_vars(Running("s1"))

\* ------------------------------------------------- two concurrent jobs
NextPair ==
  \/ AnalyzeVideo(PairInputs)
  \/ \E j \in PairInputs.jobs : Pipeline(j, PairInputs)

SpecPair == Init /\ [][NextPair]_vars

\* ------------------------------------- GET /api/results/{analysis_id}
\* db.query(...).order_by(column).all(): rows by the column, rows of equal
\* value in insertion order.
RECURSIVE InsertBy(_, _, _)
InsertBy(sorted, x, column) ==
  IF sorted = <<>> THEN <<x>>
  ELSE IF sorted[Len(sorted)][column] <= x[column] THEN Append(sorted, x)
  ELSE Append(InsertBy(SubSeq(sorted, 1, Len(sorted) - 1), x, column), sorted[Len(sorted)])

RECURSIVE OrderBy(_, _)
OrderBy(rows, column) ==
  IF rows = <<>> THEN <<>>
  ELSE InsertBy(OrderBy(SubSeq(rows, 1, Len(rows) - 1), column), rows[Len(rows)], column)

get_emotions_by_analysis(id) == OrderBy(RowsOf(emotions, id), "timestamp")
get_gestures_by_analysis(id) == OrderBy(RowsOf(gestures, id), "timestamp")
get_transcripts_by_analysis(id) == OrderBy(RowsOf(transcripts, id), "start_time")
get_key_moments_by_analysis(id) == OrderBy(RowsOf(key_moments, id), "timestamp")
\* .first(): the row or None
get_llm_insight_by_analysis(id) ==
  IF RowsOf(llm_insights, id) = <<>> THEN None ELSE Some(RowsOf(llm_insights, id)[1])

\* crud.get_complete_analysis_data
get_complete_analysis_data(id) ==
  IF id \notin DOMAIN analyses THEN None
  ELSE
    LET analysis == analyses[id]
        ems == get_emotions_by_analysis(id)
        ges == get_gestures_by_analysis(id)
        trs == get_transcripts_by_analysis(id)
        llm_insight == get_llm_insight_by_analysis(id)
        kms == get_key_moments_by_analysis(id)
    IN  Some(
          [emotions |-> [i \in 1..Len(ems) |->
                           [time |-> ems[i].timestamp, emotion |-> ems[i].emotion,
                            confidence |-> ems[i].confidence]],
           gestures |-> [i \in 1..Len(ges) |->
                           [time |-> ges[i].timestamp, type |-> ges[i].type,
                            description |-> ges[i].description,
                            confidence |-> ges[i].confidence]],
           transcript |-> [i \in 1..Len(trs) |->
                             [time |-> trs[i].start_time, end_time |-> trs[i].end_time,
                              text |-> trs[i].text, confidence |-> trs[i].confidence]],
           llm_insights |-> llm_insight,
           summary |->
             [total_duration |-> IF analysis.total_duration # None
                                   THEN analysis.total_duration[1] ELSE 0,
              emotional_range |-> list_set([i \in 1..Len(ems) |-> ems[i].emotion]),
              key_moments |-> [i \in 1..Len(kms) |->
                                 [time |-> kms[i].timestamp,
                                  description |-> kms[i].description,
                                  type |-> kms[i].type]],
              top_themes |-> IF llm_insight # None THEN llm_insight[1].main_topics ELSE <<>>],
           video_path |-> videos[analysis.video_id].stored_filename])

\* UUID(analysis_id) raises ValueError for a string that is no UUID; 0 stands
\* for such a string.
IsUuid(id) == id > 0

\* Variant: the status failed is not tested.
get_results_ignoring_failed(id) ==
  LET request == [op |-> "get_results", analysis_id |-> id]
  IN  IF ~IsUuid(id) THEN Reply(request, 400, [detail |-> "Invalid analysis ID format"])
      ELSE IF id \notin DOMAIN analyses
        THEN Reply(request, 404, [detail |-> "Analysis not found"])
      ELSE IF analyses[id].status \in {"pending", "processing"}
        THEN Reply(request, 200, [status |-> "processing",
                                  progress |-> analyses[id].progress])
      ELSE Reply(request, 200, [status |-> "completed",
                                data |-> get_complete_analysis_data(id)[1],
                                video_path |-> get_complete_analysis_data(id)[1].video_path])

\* get_results: the reply of the handler
get_results(id) ==
  LET request == [op |-> "get_results", analysis_id |-> id]
      complete_data == get_complete_analysis_data(id)
  IN  IF ~IsUuid(id) THEN Reply(request, 400, [detail |-> "Invalid analysis ID format"])
      ELSE IF id \notin DOMAIN analyses
        THEN Reply(request, 404, [detail |-> "Analysis not found"])
      ELSE IF analyses[id].status = "failed"
        THEN Reply(request, 500,
                   [detail |-> IF Truthy(analyses[id].error_message)
                                 THEN analyses[id].error_message[1]
                                 ELSE "Analysis failed"])
      ELSE IF analyses[id].status \in {"pending", "processing"}
        THEN Reply(request, 200, [status |-> "processing",
                                  progress |-> analyses[id].progress])
      ELSE IF complete_data = None
        THEN Reply(request, 404, [detail |-> "Analysis data not found"])
      ELSE Reply(request, 200, [status |-> "completed",
                                data |-> complete_data[1],
                                video_path |-> complete_data[1].video_path])

\* The ids a client may ask for: no UUID, the ids of the jobs, an unknown UUID.
AskedIds == 0..(Cardinality(JobIds) + 1)

\* Variant: the handler keeps the report it served in analysis_results.
GetResultsCaching(ids) ==
  /\ \E id \in ids :
       /\ response' = get_results(id)
       /\ analysis_results' =
            IF get_results(id)[1].code = 200 /\ "data" \in DOMAIN get_results(id)[1].body
              THEN (id :> [data |-> get_results(id)[1].body.data,
                           video_path |-> get_results(id)[1].body.video_path])
                   @@ analysis_results
              ELSE analysis_results
  /\ UNCHANGED <<videos, analyses, emotions, gestures, transcripts, llm_insights,
                 key_moments, files, clock, progress_updates,
                 analysis_errors, pc, local, calls, sub, frame>>

\* One request GET /api/results/{id}.
GetResults(ids) ==
  /\ \E id \in ids : response' = get_results(id)
  /\ UNCHANGED <<videos, analyses, emotions, gestures, transcripts, llm_insights,
                 key_moments, files, clock, progress_updates, analysis_results,
                 analysis_errors, pc, local, calls, sub, frame>>

\* ------------------------------------ GET /api/analysis/{analysis_id}
\* Variant: the handler catches every exception and answers 500.
get_analysis_catching_all(id) ==
  LET request == [op |-> "get_analysis", analysis_id |-> id]
      data == get_complete_analysis_data(id)
  IN  IF ~IsUuid(id) THEN Reply(request, 400, [detail |-> "Invalid analysis ID format"])
      ELSE IF data = None THEN ServerError(request, "HTTPException(404, Analysis not found)")
      ELSE Reply(request, 200, data[1])

\* get_analysis: the reply of the handler
get_analysis(id) ==
  LET request == [op |-> "get_analysis", analysis_id |-> id]
      data == get_complete_analysis_data(id)
  IN  IF ~IsUuid(id) THEN Reply(request, 400, [detail |-> "Invalid analysis ID format"])
      ELSE IF data = None THEN Reply(request, 404, [detail |-> "Analysis not found"])
      ELSE Reply(request, 200, data[1])

\* One request GET /api/analysis/{id}.
GetAnalysis(ids) ==
  /\ \E id \in ids : response' = get_analysis(id)
  /\ UNCHANGED <<videos, analyses, emotions, gestures, transcripts, llm_insights,
                 key_moments, files, clock, progress_updates, analysis_results,
                 analysis_errors, pc, local, calls, sub, frame>>

NextApi ==
  \/ AnalyzeVideo(AllInputs)
  \/ \E j \in JobIds : Pipeline(j, AllInputs)
  \/ GetResults(AskedIds)
  \/ GetAnalysis(AskedIds)

SpecApi == Init /\ [][NextApi]_vars


\* ------------------------------------------- direct calls of the correlator
\* correlate_analysis and identify_key_moments are plain functions of their
\* arguments; frame holds the arguments of one call of each and what the
\* call gave.  The samples are lists of dicts as the stage adapters build
\* them; a sample may lack its confidence key and may carry a timestamp that
\* is no whole number of seconds.
EmotionSamples ==
  { [time |-> 10, emotion |-> "happy", confidence |-> 90],
    [time |-> 20, emotion |-> "serious", confidence |-> 50],
    [time |-> 30, emotion |-> "happy", confidence |-> 85],
    [time |-> 25, emotion |-> "serious"],
    [time |-> 30, emotion |-> "confident", confidence |-> 86] }

GestureSamples ==
  { [time |-> 30, type |-> "pointing", description |-> "A", confidence |-> 80],
    [time |-> 5, type |-> "hand_raise", description |-> "B", confidence |-> 85] }

\* llm_insights: None, a dict without main_topics, a dict with main_topics
InsightsArgs ==
  { None,
    Some([overall_tone |-> "Neutral"]),
    Some([main_topics |-> <<"Leadership", "Hope">>, overall_tone |-> "Inspirational"]) }

SeqsUpTo(S, n) == UNION {[1..k -> S] : k \in 0..n}

InitCorrelate ==
  /\ videos = <<>> /\ analyses = <<>>
  /\ emotions = <<>> /\ gestures = <<>> /\ transcripts = <<>>
  /\ llm_insights = <<>> /\ key_moments = <<>>
  /\ files = <<>> /\ clock = 0
  /\ progress_updates = <<>> /\ analysis_results = <<>> /\ analysis_errors = <<>>
  /\ pc = <<>> /\ local = <<>> /\ calls = <<>>
  /\ sub = [s \in Subscribers |->
              [pc |-> "idle", analysis_id |-> 0, last_sent_index |-> 0,
               polls |-> 0, out |-> <<>>]]
  /\ response = None
  /\ \E emotion_data \in SeqsUpTo(EmotionSamples, MaxEmotionSamples),
        gesture_data \in SeqsUpTo(GestureSamples, MaxGestureSamples),
        insights \in InsightsArgs :
       frame = Some([emotions |-> emotion_data, gestures |-> gesture_data,
                     transcript |-> <<>>, llm_insights |-> insights,
                     total_duration |-> None, key_moments |-> None,
                     correlated |-> None])

FrameOnly == UNCHANGED <<videos, analyses, emotions, gestures, transcripts, llm_insights,
                         key_moments, files, clock, progress_updates, analysis_results,
                         analysis_errors, pc, local, calls, sub, response>>

\* total_duration = max([e["time"] for e in emotion_data]) if emotion_data else 0
CallTotalDuration ==
  /\ frame # None /\ frame[1].total_duration = None
  /\ frame' = Some([frame[1] EXCEPT
                      !.total_duration = Some(total_duration_of(frame[1].emotions))])
  /\ FrameOnly

\* key_moments = identify_key_moments(emotion_data, gesture_data, transcript)
CallIdentifyKeyMoments ==
  /\ frame # None /\ frame[1].key_moments = None
  /\ frame' = Some([frame[1] EXCEPT
                      !.key_moments = Some(identify_key_moments(frame[1].emotions,
                                                                frame[1].gestures,
                                                                frame[1].transcript))])
  /\ FrameOnly

\* correlated_data = correlate_analysis(emotions, gestures, transcript, llm_insights):
\* the dict it returns, or the exception it raises
CallCorrelate ==
  /\ frame # None /\ frame[1].correlated = None
  /\ frame' = Some([frame[1] EXCEPT
                      !.correlated =
                        IF correlate_raises(frame[1].llm_insights)
                          THEN Some([raised |-> TRUE])
                          ELSE Some([raised |-> FALSE,
                                     value |-> correlate_analysis(frame[1].emotions,
                                                                  frame[1].gestures,
                                                                  frame[1].transcript,
                                                                  frame[1].llm_insights[1])])])
  /\ FrameOnly

NextCorrelate == CallTotalDuration \/ CallIdentifyKeyMoments \/ CallCorrelate

SpecCorrelate == InitCorrelate /\ [][NextCorrelate]_vars


\* --------------------------------- uploads of different files, two jobs
\* Clients upload files of one name and of different contents within one
\* second of the clock (datetime.now() is read to the second at main.py:293).
ClashInputs ==
  [names |-> {"talk.mp4"}, contents |-> 0..MaxSamples, failures |-> {"none"},
   outcomes |-> {"ok"}, texts |-> {"boom"}, jobs |-> {1, 2}]

NextClash ==
  \/ AnalyzeVideo(ClashInputs)
  \/ \E j \in ClashInputs.jobs : Pipeline(j, ClashInputs)

SpecClash == Init /\ [][NextClash]_vars


\* ---------------------------------------------------- crud.delete_video
\* The analyses of a video and a table without the rows of some keys.
analyses_of(video_id) == {a \in DOMAIN analyses : analyses[a].video_id = video_id}
Without(table, keys) == [k \in DOMAIN table \ keys |-> table[k]]

\* Variant: the detail rows of the deleted analyses stay.
DeleteVideoShallow(video_id) ==
  /\ IF video_id \in DOMAIN videos
       THEN /\ videos' = Without(videos, {video_id})
            /\ analyses' = Without(analyses, analyses_of(video_id))
       ELSE UNCHANGED <<videos, analyses>>
  /\ UNCHANGED <<emotions, gestures, transcripts, llm_insights, key_moments>>
  /\ UNCHANGED <<files, clock, progress_updates, analysis_results, analysis_errors,
                 pc, local, calls, sub, response, frame>>

\* delete_video(db, video_id): db.delete(video) with cascade="all,
\* delete-orphan" on Video.analyses and on the five relationships of Analysis.
\* The uploaded file and the in-memory dicts are not touched.
DeleteVideo(video_id) ==
  /\ IF video_id \in DOMAIN videos
       THEN /\ videos' = Without(videos, {video_id})
            /\ analyses' = Without(analyses, analyses_of(video_id))
            /\ emotions' = Without(emotions, analyses_of(video_id))
            /\ gestures' = Without(gestures, analyses_of(video_id))
            /\ transcripts' = Without(transcripts, analyses_of(video_id))
            /\ llm_insights' = Without(llm_insights, analyses_of(video_id))
            /\ key_moments' = Without(key_moments, analyses_of(video_id))
       ELSE UNCHANGED <<videos, analyses, emotions, gestures, transcripts, llm_insights,
                        key_moments>>
  /\ UNCHANGED <<files, clock, progress_updates, analysis_results, analysis_errors,
                 pc, local, calls, sub, response, frame>>

\* uuid4 ids are not used twice: the model issues ids by counting rows, so it
\* takes no upload once a row has been deleted.
NoneDeleted == DOMAIN progress_updates \subseteq DOMAIN analyses

NextDelete ==
  \/ NoneDeleted /\ AnalyzeVideo(PairInputs)
  \/ \E j \in PairInputs.jobs : Pipeline(j, PairInputs)
  \/ \E video_id \in PairInputs.jobs : DeleteVideo(video_id)

SpecDelete == Init /\ [][NextDelete]_vars


\* ================================================================ claims
\* C1: every write through update_analysis_status leaves the stored progress
\* of a job greater than or equal to the value stored before it, also on the
\* failure path, where FAILED is written without a progress argument.
C1_ProgressNeverDecreases ==
  [][\A j \in DOMAIN analyses :
       j \in DOMAIN analyses' /\ analyses'[j].progress >= analyses[j].progress]_vars

\* A job written as failed after the checkpoint 85 has been stored.
C1_Witness ==
  \E j \in DOMAIN analyses : analyses[j].status = "failed" /\ analyses[j].progress = 85

\* C2 (as claimed): stored progress equals 100 only if the stored status is
\* completed, whichever pipeline step fails.
C2_HundredOnlyWhenCompleted ==
  \A j \in DOMAIN analyses : analyses[j].progress = 100 => analyses[j].status = "completed"

\* C3 (as claimed): once the stored status of a job is completed or failed, no
\* later step changes its status or its progress.
C3_TerminalStatusImmutable ==
  [][\A j \in DOMAIN analyses :
       analyses[j].status \in {"completed", "failed"} =>
         /\ analyses'[j].status = analyses[j].status
         /\ analyses'[j].progress = analyses[j].progress]_vars

\* C4: the stages of one run are invoked one after another in the fixed order
\* emotions, gestures, audio extraction, transcription, content analysis,
\* summary, persistence calls; progress is 10 before the first stage, reaches
\* 30, 40, 60, 75, 85 only after the respective stage has returned, and 100
\* with status completed only after every persistence call has succeeded.
C4_StageOrderAndCheckpoints ==
  LET order == <<"analyze_emotions", "analyze_gestures", "extract_audio", "transcribe",
                 "analyze_content", "generate_summary", "set_analysis_duration",
                 "create_emotions_bulk", "create_gestures_bulk",
                 "create_transcripts_bulk", "create_llm_insight",
                 "create_key_moments_bulk">>
      Returned(j, name) == \E i \in 1..Len(calls[j]) : calls[j][i] = [name |-> name, ok |-> TRUE]
  IN  \A j \in DOMAIN calls :
        /\ Len(calls[j]) <= Len(order)
        /\ \A i \in 1..Len(calls[j]) : calls[j][i].name = order[i]
        /\ analyses[j].progress \in {0, 10, 30, 40, 60, 75, 85, 100}
        /\ calls[j] # <<>> => analyses[j].progress >= 10
        /\ analyses[j].progress >= 30 => Returned(j, "analyze_emotions")
        /\ analyses[j].progress >= 40 => Returned(j, "analyze_gestures")
        /\ analyses[j].progress >= 60 => Returned(j, "transcribe")
        /\ analyses[j].progress >= 75 => Returned(j, "analyze_content")
        /\ analyses[j].progress >= 85 => Returned(j, "generate_summary")
        /\ (analyses[j].progress = 100 \/ analyses[j].status = "completed") =>
             /\ analyses[j].progress = 100
             /\ \A i \in 7..12 : Returned(j, order[i])

\* A run that has stored completed with progress 100.
C4_Witness ==
  \E j \in DOMAIN calls :
    analyses[j].status = "completed" /\ analyses[j].progress = 100 /\ Len(calls[j]) = 12

\* C5: when a stage adapter call or a persistence call of a job raises, no
\* later adapter or persistence call is made for that job, and no adapter or
\* persistence call is made more than once per job.
C5_AbortNoRetry ==
  /\ [](\A j \in DOMAIN calls :
          /\ \A i \in 1..(Len(calls[j]) - 1) : calls[j][i].ok
          /\ \A i, k \in 1..Len(calls[j]) : calls[j][i].name = calls[j][k].name => i = k)
  /\ [][\A j \in DOMAIN calls :
          pc[j] \in {"L253", "L258", "L264", "done", "crashed"} => calls'[j] = calls[j]]_vars

\* A run that has ended after its fourth call (transcribe) raised.
C5_Witness ==
  \E j \in DOMAIN calls :
    /\ pc[j] \in {"done", "crashed"}
    /\ Len(calls[j]) = 4
    /\ ~calls[j][4].ok

\* C6 (as claimed): after a failure of a stage adapter or persistence call,
\* once the handler has written the status, the stored status is failed and
\* the stored error message is non-empty and equals the text of the raised
\* exception, for every exception text.
C6_FailureRecorded ==
  \A j \in DOMAIN pc :
    (/\ pc[j] \in {"L264", "done"}
     /\ calls[j] # <<>>
     /\ ~calls[j][Len(calls[j])].ok) =>
      /\ analyses[j].status = "failed"
      /\ Truthy(analyses[j].error_message)
      /\ analyses[j].error_message = local[j].exc

\* C7: when a job fails at a step, every detail row persisted before that step
\* is present and unchanged and no detail row of a later step exists; after a
\* failure in a stage adapter the job has no detail rows at all.
C7_RowsUpToFailure ==
  LET Returned(j, name) == \E i \in 1..Len(calls[j]) : calls[j][i] = [name |-> name, ok |-> TRUE]
      Stored(j, table, name, rows) == RowsOf(table, j) = IF Returned(j, name) THEN rows ELSE <<>>
      NoRows(j) == /\ RowsOf(emotions, j) = <<>> /\ RowsOf(gestures, j) = <<>>
                   /\ RowsOf(transcripts, j) = <<>> /\ RowsOf(llm_insights, j) = <<>>
                   /\ RowsOf(key_moments, j) = <<>>
  IN  \A j \in DOMAIN calls :
        /\ Stored(j, emotions, "create_emotions_bulk", emotions_for_db(local[j].emotion_data))
        /\ Stored(j, gestures, "create_gestures_bulk", gestures_for_db(local[j].gesture_data))
        /\ Stored(j, transcripts, "create_transcripts_bulk",
                  transcripts_for_db(local[j].transcript))
        /\ Returned(j, "create_llm_insight") => Len(RowsOf(llm_insights, j)) = 1
        /\ ~Returned(j, "create_llm_insight") => RowsOf(llm_insights, j) = <<>>
        /\ Stored(j, key_moments, "create_key_moments_bulk",
                  key_moments_for_db(identify_key_moments(local[j].emotion_data,
                                                          local[j].gesture_data,
                                                          local[j].transcript)))
        /\ ~Returned(j, "set_analysis_duration") => NoRows(j)

\* A failed job whose emotion rows are stored and whose gesture call raised.
C7_Witness ==
  \E j \in DOMAIN calls :
    /\ analyses[j].status = "failed"
    /\ RowsOf(emotions, j) # <<>>
    /\ Len(calls[j]) = 9 /\ ~calls[j][9].ok
    /\ RowsOf(gestures, j) = <<>>
    /\ local[j].gesture_data # <<>>

\* C8: a subscriber emits the messages of the log in append order from index
\* 0 with consecutive indices, none skipped, repeated or reordered, and it
\* leaves its send loop only when it has emitted every message the log holds.
C8_StreamInOrder ==
  /\ [](\A s \in Subscribers :
          sub[s].pc \in {"send", "check", "done"} =>
            /\ sub[s].last_sent_index <= Len(Messages(s))
            /\ Len(sub[s].out) = sub[s].last_sent_index + (IF sub[s].pc = "done" THEN 1 ELSE 0)
            /\ \A i \in 1..sub[s].last_sent_index :
                 sub[s].out[i] = [message |-> Messages(s)[i], index |-> i - 1])
  /\ [][\A s \in Subscribers :
          (sub[s].pc = "send" /\ sub'[s].pc = "check") =>
            sub[s].last_sent_index = Len(Messages(s))]_vars

\* A subscriber that found five messages or more and has emitted all of them.
C8_Witness ==
  \E s \in Subscribers :
    /\ sub[s].pc = "check"
    /\ sub[s].last_sent_index = Len(Messages(s))
    /\ sub[s].last_sent_index >= 5

\* C9: the subscribers of one job each receive the history from index 0
\* independently: a step of one subscriber changes neither the log nor the
\* state of another subscriber, and two subscribers emit the same message at
\* the same index.
C9_Broadcast ==
  /\ [][\A s \in Subscribers :
          sub'[s] # sub[s] =>
            /\ progress_updates' = progress_updates
            /\ \A t \in Subscribers \ {s} : sub'[t] = sub[t]]_vars
  /\ [](\A s, t \in Subscribers :
          (sub[s].pc # "idle" /\ sub[t].pc # "idle"
             /\ sub[s].analysis_id = sub[t].analysis_id) =>
            \A i \in 1..sub[s].last_sent_index :
              /\ sub[s].out[i].index = i - 1
              /\ i <= sub[t].last_sent_index => sub[s].out[i] = sub[t].out[i])

\* Two subscribers of one job that have both emitted the whole log.
C9_Witness ==
  /\ \A s \in Subscribers : sub[s].pc = "done" /\ sub[s].last_sent_index = Len(Messages(s))
  /\ \A s \in Subscribers : sub[s].last_sent_index >= 3
  /\ \A s, t \in Subscribers : sub[s].analysis_id = sub[t].analysis_id

\* C10 (as claimed): a subscriber emits DONE only after it has itself emitted
\* a sentinel message, under every interleaving with the pipeline's appends.
C10_DoneAfterSentinel ==
  \A s \in Subscribers :
    sub[s].pc = "done" =>
      \E i \in 1..sub[s].last_sent_index : IsSentinel(sub[s].out[i].message)

\* C11: for a job whose pipeline has ended, every subscriber of that job
\* eventually emits DONE and stops, whether it subscribed before the job
\* existed, during the run or after it, as long as it keeps being scheduled.
C11_EventuallyDone ==
  \A s \in Subscribers :
    \A j \in JobIds :
      (/\ j \in DOMAIN pc /\ pc[j] \in {"done", "crashed"}
       /\ sub[s].pc # "idle" /\ sub[s].analysis_id = j)
        ~> (sub[s].pc = "done" /\ sub[s].out[Len(sub[s].out)].message = MsgDone)

\* A subscriber that asked before the job was submitted, waited until the
\* wait expired and has emitted DONE for a job that ended failed.
C11_Witness ==
  \E s \in Subscribers :
    /\ sub[s].pc = "done" /\ sub[s].polls = WaitPolls
    /\ sub[s].analysis_id \in DOMAIN pc
    /\ pc[sub[s].analysis_id] = "done"
    /\ analyses[sub[s].analysis_id].status = "failed"

\* C12 (as claimed): no run of the pipeline ends with the stored status left
\* at pending or processing, also when a store call of the failure handler
\* raises.
C12_RunEndsTerminal ==
  \A j \in DOMAIN pc :
    pc[j] \in {"done", "crashed"} => analyses[j].status \in {"completed", "failed"}

\* C13: a step of the pipeline of one job, in particular a failing step and
\* the steps of its failure handler, leaves the stored row, the detail rows,
\* the progress log, the parent video and the task of every other job
\* unchanged, and the task of a job that has not ended can always take its
\* next step, whatever has happened to the other job.
C13_FailureIsLocal ==
  /\ [][\A j, k \in DOMAIN pc :
          (j # k /\ pc'[j] # pc[j]) =>
            /\ analyses'[k] = analyses[k]
            /\ progress_updates'[k] = progress_updates[k]
            /\ videos'[local[k].video_id] = videos[local[k].video_id]
            /\ RowsOf(emotions', k) = RowsOf(emotions, k)
            /\ RowsOf(gestures', k) = RowsOf(gestures, k)
            /\ RowsOf(transcripts', k) = RowsOf(transcripts, k)
            /\ RowsOf(llm_insights', k) = RowsOf(llm_insights, k)
            /\ RowsOf(key_moments', k) = RowsOf(key_moments, k)
            /\ pc'[k] = pc[k] /\ local'[k] = local[k] /\ calls'[k] = calls[k]]_vars
  /\ [](\A k \in DOMAIN pc :
          pc[k] \notin {"done", "crashed"} => ENABLED Pipeline(k, PairInputs))

\* Two jobs: the first has ended failed, the second has ended completed with
\* its rows stored and its completion message appended.
C13_Witness ==
  /\ DOMAIN pc = {1, 2}
  /\ pc[1] = "done" /\ analyses[1].status = "failed" /\ videos[local[1].video_id].status = "failed"
  /\ pc[2] = "done" /\ analyses[2].status = "completed"
  /\ videos[local[2].video_id].status = "completed"
  /\ RowsOf(emotions, 2) # <<>>
  /\ progress_updates[2][Len(progress_updates[2])] = MsgCompleted

\* C14: the reply of the results endpoint follows the stored status: pending
\* or processing gives {status: processing, progress} with the stored
\* progress, failed gives an error whose detail is the stored error message
\* where one is stored, completed gives {status: completed, data} with the
\* stored rows of the job, and report data is returned for no other status;
\* every reply the endpoint gives is the one computed from the store.
C14_ResultsByStatus ==
  /\ [](\A id \in DOMAIN analyses :
          LET r == get_results(id)[1]
              a == analyses[id]
          IN  /\ a.status \in {"pending", "processing"} =>
                   /\ r.code = 200
                   /\ r.body = [status |-> "processing", progress |-> a.progress]
              /\ a.status = "failed" =>
                   /\ r.code = 500
                   /\ DOMAIN r.body = {"detail"}
                   /\ Truthy(a.error_message) => r.body.detail = a.error_message[1]
              /\ a.status = "completed" =>
                   /\ r.code = 200
                   /\ r.body.status = "completed"
                   /\ Len(r.body.data.emotions) = Len(RowsOf(emotions, id))
                   /\ Len(r.body.data.gestures) = Len(RowsOf(gestures, id))
                   /\ Len(r.body.data.transcript) = Len(RowsOf(transcripts, id))
                   /\ Len(r.body.data.summary.key_moments) = Len(RowsOf(key_moments, id))
                   /\ id \in DOMAIN local =>
                        /\ r.body.data.emotions = local[id].emotion_data
                        /\ r.body.data.gestures = local[id].gesture_data
              /\ "data" \in DOMAIN r.body => a.status = "completed")
  /\ [][(response' # response /\ response'[1].request.op = "get_results") =>
          response' = get_results(response'[1].request.analysis_id)]_vars

\* The endpoint has answered with the report of a completed job.
C14_Witness ==
  /\ response # None
  /\ response[1].request.op = "get_results"
  /\ response[1].code = 200
  /\ response[1].body.status = "completed"
  /\ response[1].body.data.emotions # <<>>
  /\ analyses[response[1].request.analysis_id].status = "completed"

\* C15: a submission whose content type is not video/* creates no Video
\* record, no Analysis record, no progress-log entry, no file and no
\* background task.
C15_NonVideoCreatesNothing ==
  [][(/\ response' # response
      /\ response'[1].request.op = "analyze_video"
      /\ response'[1].request.content_type # "video") =>
        UNCHANGED <<videos, analyses, progress_updates, files, pc, local, calls>>]_vars

\* A non-video submission has been answered and the store is still empty.
C15_Witness ==
  /\ response # None
  /\ response[1].request.op = "analyze_video"
  /\ response[1].request.content_type = "text"
  /\ videos = <<>> /\ analyses = <<>> /\ progress_updates = <<>> /\ pc = <<>>

\* C16 (as claimed): a submission whose content type is not video/* is
\* answered with the status code 400.
C16_NonVideoIsClientError ==
  (/\ response # None
   /\ response[1].request.op = "analyze_video"
   /\ response[1].request.content_type # "video") => response[1].code = 400

\* C17 (as claimed): when the pipeline of a job has ended, the status of the
\* parent video is failed if the job is failed and completed if the job is
\* completed.
C17_VideoMirrorsJob ==
  \A j \in DOMAIN pc :
    pc[j] \in {"done", "crashed"} =>
      /\ analyses[j].status = "failed" => videos[local[j].video_id].status = "failed"
      /\ analyses[j].status = "completed" => videos[local[j].video_id].status = "completed"

\* C18 (as claimed): when a subscriber that has delivered a message containing
\* "analysis completed" in any letter case, or an error indicator, evaluates
\* its termination test, the stream ends with DONE.
C18_CaseInsensitiveCompletion ==
  [][\A s \in Subscribers :
       (/\ sub[s].pc = "check"
        /\ \E i \in 1..sub[s].last_sent_index :
             \/ HasAnalysisCompletedAnyCase(sub[s].out[i].message)
             \/ HasErrorLower(sub[s].out[i].message)) =>
         (sub'[s] = sub[s] \/ sub'[s].pc = "done")]_vars

\* C18 (amended): the termination test matches "Analysis completed" as a
\* case-sensitive substring and "error" in any letter case: when a subscriber
\* that has delivered such a message evaluates its test, the stream ends with
\* DONE, and the stream does not end while the log holds no such message, so
\* "AI analysis completed" does not end it.
C18_CaseSensitiveCompletion ==
  /\ [][\A s \in Subscribers :
          (/\ sub[s].pc = "check"
           /\ \E i \in 1..sub[s].last_sent_index : IsSentinel(sub[s].out[i].message)) =>
            (sub'[s] = sub[s] \/ sub'[s].pc = "done")]_vars
  /\ [](\A s \in Subscribers :
          sub[s].pc = "done" =>
            \E i \in 1..Len(Messages(s)) :
              \/ \E k \in 1..(Len(Messages(s)[i]) - 1) :
                   Messages(s)[i][k] = "Analysis" /\ Messages(s)[i][k + 1] = "completed"
              \/ \E k \in 1..Len(Messages(s)[i]) :
                   Lower(Messages(s)[i][k]) \in {"error", "error.mp4"})

\* A subscriber that delivered "AI analysis completed", went on, delivered
\* "Analysis completed successfully!" and then ended with DONE.
C18_Witness ==
  \E s \in Subscribers :
    /\ sub[s].pc = "done"
    /\ \E i \in 1..sub[s].last_sent_index :
         /\ sub[s].out[i].message = MsgAIDone
         /\ \A k \in 1..i : ~IsSentinel(sub[s].out[k].message)
    /\ sub[s].out[sub[s].last_sent_index].message = MsgCompleted

\* C19: a subscriber of an id without a log entry emits nothing and does not
\* end, during the initial wait and after it; what it emits first is the
\* first message of the log with index 0, and once an entry exists a waiting
\* subscriber eventually emits it, also when its wait has expired before.
C19_SilentUntilEntry ==
  /\ [](\A s \in Subscribers :
          (sub[s].pc # "idle" /\ ~Present(s)) =>
            /\ sub[s].pc \in {"wait", "poll"}
            /\ sub[s].out = <<>> /\ sub[s].last_sent_index = 0)
  /\ [](\A s \in Subscribers :
          (sub[s].out # <<>> /\ Present(s)) =>
            sub[s].out[1] = [message |-> Messages(s)[1], index |-> 0])
  /\ \A s \in Subscribers :
       (sub[s].pc \in {"wait", "poll"} /\ Present(s)) ~> (sub[s].out # <<>>)

\* A subscriber whose wait expired without an entry and that has emitted the
\* first message of the entry that appeared later.
C19_Witness ==
  \E s \in Subscribers :
    /\ sub[s].polls = WaitPolls
    /\ sub[s].out # <<>>
    /\ sub[s].out[1].index = 0

\* C20: every step leaves the previous log of a job as a prefix of its new
\* log and changes the log of at most one job; add_progress puts exactly one
\* message at the end of the log of its job and leaves every other log as it
\* is.
C20_AppendOnly ==
  /\ [][\A j \in DOMAIN progress_updates :
          /\ j \in DOMAIN progress_updates'
          /\ Len(progress_updates[j]) <= Len(progress_updates'[j])
          /\ SubSeq(progress_updates'[j], 1, Len(progress_updates[j])) = progress_updates[j]]_vars
  /\ [][Cardinality({j \in DOMAIN progress_updates' :
                       RowsOf(progress_updates, j) # progress_updates'[j]}) <= 1]_vars
  /\ [](\A j \in PairInputs.jobs :
          LET new == add_progress(progress_updates, j, MsgSaving)
          IN  /\ DOMAIN new = DOMAIN progress_updates \cup {j}
              /\ new[j] = Append(RowsOf(progress_updates, j), MsgSaving)
              /\ \A k \in DOMAIN progress_updates \ {j} : new[k] = progress_updates[k])

\* Two jobs whose logs have both grown beyond the messages of the upload.
C20_Witness ==
  /\ DOMAIN progress_updates = {1, 2}
  /\ Len(progress_updates[1]) >= 4 /\ Len(progress_updates[2]) >= 4
  /\ progress_updates[1] # progress_updates[2]

\* The database rows, and everything a request could write to besides.
store == <<videos, analyses, emotions, gestures, transcripts, llm_insights, key_moments>>
beside_store == <<files, progress_updates, analysis_results, analysis_errors, pc, local,
                  calls, sub>>
IsRequestStep(ops) == response' # response /\ response'[1].request.op \in ops

C22_UnknownIdReplies ==
  /\ [](\A id \in AskedIds :
          /\ ~IsUuid(id) =>
               /\ get_results(id)[1].code = 400
               /\ get_analysis(id)[1].code = 400
          /\ (IsUuid(id) /\ id \notin DOMAIN analyses) =>
               /\ get_results(id)[1].code = 404
               /\ get_analysis(id)[1].code = 404)
  /\ [](response # None /\ response[1].request.op \in {"get_results", "get_analysis"} =>
          LET id == response[1].request.analysis_id
          IN  /\ ~IsUuid(id) => response[1].code = 400
              /\ (IsUuid(id) /\ response[1].code # 404) => id \in DOMAIN analyses)
  /\ [][IsRequestStep({"get_results", "get_analysis"}) =>
          /\ UNCHANGED <<store, beside_store>>
          /\ response' = IF response'[1].request.op = "get_results"
                           THEN get_results(response'[1].request.analysis_id)
                           ELSE get_analysis(response'[1].request.analysis_id)]_vars

\* The analysis endpoint has answered not-found for a well-formed id while
\* another job is stored.
C22_Witness ==
  /\ response # None
  /\ response[1].request.op = "get_analysis"
  /\ IsUuid(response[1].request.analysis_id)
  /\ response[1].request.analysis_id \notin DOMAIN analyses
  /\ response[1].code = 404
  /\ DOMAIN analyses # {}

\* The detail tables.
DetailRows(a) ==
  <<RowsOf(emotions, a), RowsOf(gestures, a), RowsOf(transcripts, a),
    RowsOf(llm_insights, a), RowsOf(key_moments, a)>>
NoDetailRows == <<<<>>, <<>>, <<>>, <<>>, <<>>>>

\* C23: a step that removes a video removes its analyses and every emotion,
\* gesture, transcript, insight and key-moment row of them, and leaves the
\* other videos, the other analyses and their rows as they were; no analysis
\* references a video that is not stored and no detail row an analysis that
\* is not stored.
C23_DeleteCascades ==
  /\ [][\A v \in DOMAIN videos : v \notin DOMAIN videos' =>
          LET gone == {a \in DOMAIN analyses : analyses[a].video_id = v}
          IN  /\ DOMAIN analyses' = DOMAIN analyses \ gone
              /\ \A a \in gone : DetailRows(a)' = NoDetailRows
              /\ \A a \in DOMAIN analyses \ gone :
                   /\ analyses'[a] = analyses[a]
                   /\ DetailRows(a)' = DetailRows(a)
              /\ DOMAIN videos' = DOMAIN videos \ {v}
              /\ \A w \in DOMAIN videos' : videos'[w] = videos[w]]_vars
  /\ [](/\ \A a \in DOMAIN analyses : analyses[a].video_id \in DOMAIN videos
        /\ \A a \in PairInputs.jobs :
             a \notin DOMAIN analyses => DetailRows(a) = NoDetailRows)

\* Two jobs had stored rows; the first has been deleted and the rows of the
\* second are still there.
C23_Witness ==
  /\ DOMAIN progress_updates = {1, 2}
  /\ DOMAIN videos = {2}
  /\ calls[1] # <<>>
  /\ \E i \in 1..Len(calls[1]) : calls[1][i] = [name |-> "create_emotions_bulk", ok |-> TRUE]
  /\ RowsOf(emotions, 2) # <<>>
  /\ RowsOf(key_moments, 2) # <<>>

\* The indices of a list whose element satisfies a test.
Where(xs, Test(_)) == {i \in 1..Len(xs) : Test(xs[i])}

\* The samples a moment may stem from: the emotion samples with a confidence
\* above 0.85 and the first three gestures.
HasPeakConfidence(e) == "confidence" \in DOMAIN e /\ e.confidence > 85
FirstThree(gesture_data) ==
  SubSeq(gesture_data, 1, IF Len(gesture_data) < 3 THEN Len(gesture_data) ELSE 3)
PeakDescription(label) == <<"Peak", label, "emotion detected">>

\* C24 (as claimed): for any list of emotion samples total_duration equals the
\* maximum sample timestamp, and 0 for the empty list, in the value the
\* orchestrator computes and in the summary of correlate_analysis.
C24_TotalDurationIsMax ==
  frame # None =>
    LET F == frame[1]
        times == {F.emotions[i].time : i \in 1..Len(F.emotions)}
        maximum == IF times = {} THEN 0 ELSE CHOOSE t \in times : \A u \in times : u <= t
    IN  /\ F.total_duration # None => F.total_duration[1] = maximum
        /\ (F.correlated # None /\ ~F.correlated[1].raised) =>
             F.correlated[1].value.summary.total_duration = maximum

\* C25: emotional_range holds every emotion label of the samples exactly once
\* and no other label, and is empty for the empty list.
C25_EmotionalRangeDistinct ==
  (frame # None /\ frame[1].correlated # None /\ ~frame[1].correlated[1].raised) =>
    LET F == frame[1]
        range == F.correlated[1].value.summary.emotional_range
        labels == {F.emotions[i].emotion : i \in 1..Len(F.emotions)}
    IN  /\ {range[i] : i \in 1..Len(range)} = labels
        /\ \A i, k \in 1..Len(range) : range[i] = range[k] => i = k
        /\ F.emotions = <<>> => range = <<>>

\* Two samples of one label gave a range of one entry.
C25_Witness ==
  /\ frame # None /\ frame[1].correlated # None /\ ~frame[1].correlated[1].raised
  /\ Len(frame[1].emotions) = 2
  /\ frame[1].emotions[1].emotion = frame[1].emotions[2].emotion
  /\ frame[1].emotions[1] # frame[1].emotions[2]
  /\ Len(frame[1].correlated[1].value.summary.emotional_range) = 1

\* C26: identify_key_moments yields one emotion-typed moment, described
\* "Peak <emotion> emotion detected", for every emotion sample with a
\* confidence strictly above 0.85 and none for a sample with confidence 0.85,
\* lower, or without confidence.
C26_PeakMoments ==
  (frame # None /\ frame[1].key_moments # None) =>
    LET F == frame[1]
        moments == F.key_moments[1]
        labels == {F.emotions[i].emotion : i \in 1..Len(F.emotions)}
        IsEmotionMoment(m) == m.type = "emotion"
    IN  /\ \A i \in Where(moments, IsEmotionMoment) :
             \E label \in labels : moments[i].description = PeakDescription(label)
        /\ \A label \in labels :
             LET OfLabel(m) == m.type = "emotion" /\ m.description = PeakDescription(label)
                 PeakOfLabel(e) == e.emotion = label /\ HasPeakConfidence(e)
             IN  Cardinality(Where(moments, OfLabel)) =
                   Cardinality(Where(F.emotions, PeakOfLabel))

\* A sample with confidence 0.85 or without confidence next to one above 0.85:
\* the result holds exactly one emotion-typed moment.
C26_Witness ==
  /\ frame # None /\ frame[1].key_moments # None
  /\ Len(frame[1].emotions) = 2
  /\ HasPeakConfidence(frame[1].emotions[2])
  /\ ~HasPeakConfidence(frame[1].emotions[1])
  /\ frame[1].emotions[1].emotion = frame[1].emotions[2].emotion
  /\ LET IsEmotionMoment(m) == m.type = "emotion"
     IN  Cardinality(Where(frame[1].key_moments[1], IsEmotionMoment)) = 1

\* C27: for a gesture list of length n the result holds min(n, 3)
\* gesture-typed moments, one for each of the first three gestures of the
\* input, each with the description of its gesture.
C27_FirstThreeGestures ==
  (frame # None /\ frame[1].key_moments # None) =>
    LET F == frame[1]
        moments == F.key_moments[1]
        n == Len(F.gestures)
        IsGestureMoment(m) == m.type = "gesture"
    IN  /\ Cardinality(Where(moments, IsGestureMoment)) = IF n < 3 THEN n ELSE 3
        /\ \A d \in {F.gestures[i].description : i \in 1..n} :
             LET OfGesture(m) == m.type = "gesture" /\ m.description = <<d>>
                 Described(g) == g.description = d
             IN  Cardinality(Where(moments, OfGesture)) =
                   Cardinality(Where(FirstThree(F.gestures), Described))

\* Four gestures, the fourth the earliest and the most confident: the result
\* holds three gesture moments and none of the fourth gesture.
C27_Witness ==
  /\ frame # None /\ frame[1].key_moments # None
  /\ Len(frame[1].gestures) = 4
  /\ \A i \in 1..3 : frame[1].gestures[i].description = "A"
  /\ frame[1].gestures[4].description = "B"
  /\ LET IsGestureMoment(m) == m.type = "gesture"
         OfFourth(m) == m.description = <<"B">>
     IN  /\ Cardinality(Where(frame[1].key_moments[1], IsGestureMoment)) = 3
         /\ Where(frame[1].key_moments[1], OfFourth) = {}

\* C28: the key moments are in ascending order of their timestamps, and the
\* moments of one timestamp are the emotion moments in sample order followed
\* by the gesture moments in input order.
C28_StableAscending ==
  (frame # None /\ frame[1].key_moments # None) =>
    LET F == frame[1]
        moments == F.key_moments[1]
        peaks == SelectSeq(F.emotions, HasPeakConfidence)
        first == FirstThree(F.gestures)
        inserted == [i \in 1..Len(peaks) |->
                       [time |-> Round(peaks[i].time),
                        description |-> PeakDescription(peaks[i].emotion),
                        type |-> "emotion"]]
                    \o [i \in 1..Len(first) |->
                          [time |-> Round(first[i].time),
                           description |-> <<first[i].description>>,
                           type |-> "gesture"]]
    IN  /\ \A i \in 1..(Len(moments) - 1) : moments[i].time <= moments[i + 1].time
        /\ \A t \in {moments[i].time : i \in 1..Len(moments)}
                  \cup {inserted[i].time : i \in 1..Len(inserted)} :
             LET AtT(m) == m.time = t
             IN  SelectSeq(moments, AtT) = SelectSeq(inserted, AtT)

\* An emotion moment and a gesture moment of one timestamp, in this order.
C28_Witness ==
  /\ frame # None /\ frame[1].key_moments # None
  /\ \E i \in 1..(Len(frame[1].key_moments[1]) - 1) :
       /\ frame[1].key_moments[1][i].type = "emotion"
       /\ frame[1].key_moments[1][i + 1].type = "gesture"
       /\ frame[1].key_moments[1][i].time = frame[1].key_moments[1][i + 1].time

\* C29 (as claimed): the timestamp of every key moment equals the timestamp of
\* the sample it was derived from, also for a timestamp that is no whole
\* number; the emotions [(1, happy, 0.9), (2, serious, 0.5)] and the gestures
\* [(3, pointing, A), (0.5, hand_raise, B)] give
\* [(0.5, B, gesture), (1, Peak happy, emotion), (3, A, gesture)].
C29_MomentTimeIsSampleTime ==
  (frame # None /\ frame[1].key_moments # None) =>
    LET F == frame[1]
        moments == F.key_moments[1]
    IN  /\ \A i \in 1..Len(moments) :
             IF moments[i].type = "emotion"
               THEN \E k \in 1..Len(F.emotions) :
                      /\ HasPeakConfidence(F.emotions[k])
                      /\ moments[i].description = PeakDescription(F.emotions[k].emotion)
                      /\ moments[i].time = F.emotions[k].time
               ELSE \E k \in 1..Len(FirstThree(F.gestures)) :
                      /\ moments[i].description = <<F.gestures[k].description>>
                      /\ moments[i].time = F.gestures[k].time
        /\ (/\ F.emotions = <<[time |-> 10, emotion |-> "happy", confidence |-> 90],
                              [time |-> 20, emotion |-> "serious", confidence |-> 50]>>
            /\ [i \in 1..Len(F.gestures) |->
                  <<F.gestures[i].time, F.gestures[i].description>>] = <<<<30, "A">>, <<5, "B">>>>) =>
             moments = <<[time |-> 5, description |-> <<"B">>, type |-> "gesture"],
                         [time |-> 10, description |-> PeakDescription("happy"),
                          type |-> "emotion"],
                         [time |-> 30, description |-> <<"A">>, type |-> "gesture"]>>

\* C30 (as claimed): correlate_analysis returns for every insights argument:
\* top_themes is the main topics of the insights, and it is empty when the
\* insights are absent or carry no main_topics.
C30_TopThemesOrEmpty ==
  (frame # None /\ frame[1].correlated # None) =>
    LET F == frame[1]
    IN  /\ ~F.correlated[1].raised
        /\ F.correlated[1].value.summary.top_themes =
             IF F.llm_insights # None /\ "main_topics" \in DOMAIN F.llm_insights[1]
               THEN F.llm_insights[1].main_topics ELSE <<>>

\* The keys of the insights dict a task holds (none before content analysis).
InsightKeys(j) == DOMAIN local[j].llm_insights
FallbackTone == "Urgent yet hopeful with strong call to action"

\* C31: whatever the outcome of the LLM call, the step of content analysis
\* leads to the next statement with an insights dict, and the step of
\* summarization to the next statement with a transcript_summary that is the
\* summary or the literal "Summary generation failed."; neither call is ever
\* recorded as raised, and control never moves from them to the handler.
C31_LLMFailuresSwallowed ==
  /\ [][\A j \in DOMAIN pc :
          /\ (pc[j] = "L166" /\ pc'[j] # "L166") =>
               /\ pc'[j] = "L169"
               /\ "main_topics" \in InsightKeys(j)'
               /\ analyses'[j].status # "failed"
          /\ (pc[j] = "L173" /\ pc'[j] # "L173") =>
               /\ pc'[j] = "L177"
               /\ "transcript_summary" \in InsightKeys(j)'
               /\ local'[j].llm_insights.transcript_summary
                    \in {"summary", "Summary generation failed."}
               /\ analyses'[j].status # "failed"]_vars
  /\ [](\A j \in DOMAIN calls : \A i \in 1..Len(calls[j]) :
          calls[j][i].name \in {"analyze_content", "generate_summary"} => calls[j][i].ok)

\* A completed job whose stored insights are the fallback structure and the
\* fallback summary: both LLM calls of its run had failed.
C31_Witness ==
  \E j \in DOMAIN analyses :
    /\ analyses[j].status = "completed"
    /\ RowsOf(llm_insights, j) # <<>>
    /\ llm_insights[j][1].overall_tone = FallbackTone
    /\ llm_insights[j][1].transcript_summary = "Summary generation failed."

\* The elements of a list, as a set.
Elements(xs) == {xs[i] : i \in 1..Len(xs)}

\* The summary the correlator gives for the stage outputs the task of job j
\* holds, and the summary the report built from the stored rows carries.
CorrelatedSummary(j) ==
  correlate_analysis(local[j].emotion_data, local[j].gesture_data, local[j].transcript,
                     local[j].llm_insights).summary
StoredSummary(j) == get_complete_analysis_data(j)[1].summary

C33_OneInsightPerCompletedJob ==
  \A j \in DOMAIN analyses :
    /\ Len(RowsOf(llm_insights, j)) <= 1
    /\ analyses[j].status = "completed" => Len(RowsOf(llm_insights, j)) = 1

\* A completed job with its one insight row, written by the one call of
\* create_llm_insight of its run.
C33_Witness ==
  \E j \in DOMAIN analyses :
    /\ analyses[j].status = "completed"
    /\ Len(RowsOf(llm_insights, j)) = 1
    /\ Cardinality({i \in 1..Len(calls[j]) : calls[j][i].name = "create_llm_insight"}) = 1

\* C34: a background task is started only for an analysis id that had no
\* row, no task and no log before the step that starts it, and a started
\* task is never started again; every write to the status, the progress or
\* the detail rows of a job is a step of the task of that job, and a step is
\* a step of at most one task.
C34_OneRunPerJob ==
  /\ [][\A j \in DOMAIN pc' :
          (j \notin DOMAIN pc \/ (pc'[j] = "L137" /\ pc[j] # "L137")) =>
            /\ j \notin DOMAIN pc
            /\ j \notin DOMAIN analyses
            /\ j \notin DOMAIN progress_updates
            /\ calls'[j] = <<>>]_vars
  /\ [][\A j \in DOMAIN analyses :
          /\ j \in DOMAIN analyses'
          /\ (analyses'[j] # analyses[j] \/ DetailRows(j)' # DetailRows(j)) =>
               (j \in DOMAIN pc /\ pc'[j] # pc[j])]_vars
  /\ [][Cardinality({j \in DOMAIN pc : pc'[j] # pc[j]}) <= 1]_vars

\* Two submissions whose tasks are both under way, each on its own video.
C34_Witness ==
  /\ DOMAIN pc = {1, 2}
  /\ pc[1] = "L207" /\ pc[2] = "L166"
  /\ analyses[1].video_id # analyses[2].video_id
  /\ analyses[1].status = "processing" /\ analyses[2].status = "processing"

\* The persistence calls of step 4 in the order of main.py, and the calls of
\* a job that returned and that raised.
PersistenceOrder ==
  <<"create_emotions_bulk", "create_gestures_bulk", "create_transcripts_bulk",
    "create_llm_insight", "create_key_moments_bulk">>
Returned(j, name) == \E i \in 1..Len(calls[j]) : calls[j][i] = [name |-> name, ok |-> TRUE]
PersistenceRaised(j) ==
  \E i \in 1..Len(calls[j]), k \in 1..Len(PersistenceOrder) :
    calls[j][i] = [name |-> PersistenceOrder[k], ok |-> FALSE]
Ended(j) == pc[j] \in {"done", "crashed"}

\* The rows of each kind are there only when the bulk calls of all earlier
\* kinds and of the kind itself have returned, and then all of them are.
PersistedInOrder ==
  \A j \in DOMAIN calls :
    /\ \A k \in 1..Len(PersistenceOrder) :
         DetailRows(j)[k] # <<>> =>
           \A e \in 1..k : Returned(j, PersistenceOrder[e])
    /\ RowsOf(emotions, j) \in {<<>>, emotions_for_db(local[j].emotion_data)}
    /\ RowsOf(gestures, j) \in {<<>>, gestures_for_db(local[j].gesture_data)}
    /\ RowsOf(transcripts, j) \in {<<>>, transcripts_for_db(local[j].transcript)}

\* C35 (as claimed): the detail rows of a job are written in the order
\* emotions, gestures, transcript, content insights, key moments, each kind
\* all or none, rows of a later kind are there only when the calls of all
\* earlier kinds have succeeded, and a run in which a persistence call raised
\* ends with the job stored as failed.
C35_OrderedPersistenceOrFailed ==
  /\ PersistedInOrder
  /\ \A j \in DOMAIN calls :
       (Ended(j) /\ PersistenceRaised(j)) => analyses[j].status = "failed"

\* C36 (as claimed): in the step in which a subscriber emits DONE for a job,
\* the stored status of that job is completed or failed, for every uploaded
\* filename and every point of failure of the pipeline.
C36_DoneOnlyWhenTerminal ==
  [][\A s \in Subscribers :
       (sub[s].pc = "check" /\ sub'[s].pc = "done") =>
         /\ sub[s].analysis_id \in DOMAIN analyses
         /\ analyses[sub[s].analysis_id].status \in {"completed", "failed"}]_vars

\* C37: in every state in which a job is stored as completed,
\* set_analysis_duration and the five persistence calls of its run have
\* returned and the rows of every kind are stored in full; a reply of the
\* results endpoint that carries report data carries all samples of the run.
C37_CompletedAfterAllPersisted ==
  /\ [](\A j \in DOMAIN analyses :
          analyses[j].status = "completed" =>
            /\ Returned(j, "set_analysis_duration")
            /\ analyses[j].total_duration # None
            /\ \A k \in 1..Len(PersistenceOrder) : Returned(j, PersistenceOrder[k])
            /\ RowsOf(emotions, j) = emotions_for_db(local[j].emotion_data)
            /\ RowsOf(gestures, j) = gestures_for_db(local[j].gesture_data)
            /\ RowsOf(transcripts, j) = transcripts_for_db(local[j].transcript)
            /\ Len(RowsOf(llm_insights, j)) = 1
            /\ RowsOf(key_moments, j) =
                 key_moments_for_db(identify_key_moments(local[j].emotion_data,
                                                         local[j].gesture_data,
                                                         local[j].transcript)))
  /\ [][(IsRequestStep({"get_results"}) /\ "data" \in DOMAIN response'[1].body) =>
          LET id == response'[1].request.analysis_id
              data == response'[1].body.data
          IN  /\ Len(data.emotions) = Len(local[id].emotion_data)
              /\ Len(data.gestures) = Len(local[id].gesture_data)
              /\ Len(data.transcript) = Len(local[id].transcript)
              /\ data.llm_insights # None]_vars

\* The results endpoint has served the report of a job right after COMPLETED
\* was written, before the task went on to the status of the video.
C37_Witness ==
  /\ response # None
  /\ response[1].request.op = "get_results"
  /\ response[1].code = 200
  /\ "data" \in DOMAIN response[1].body
  /\ response[1].body.data.transcript # <<>>
  /\ pc[response[1].request.analysis_id] = "L241"

\* C38 (as claimed): the analysis endpoint answers with report data only for
\* a job whose stored status is completed.
C38_AnalysisOnlyWhenCompleted ==
  [][(IsRequestStep({"get_analysis"}) /\ response'[1].code = 200) =>
       analyses[response'[1].request.analysis_id].status = "completed"]_vars

\* The jobs whose video is stored under a filename and that are not finished.
UnfinishedJobsOf(stored_filename) ==
  {j \in DOMAIN analyses :
     /\ videos[analyses[j].video_id].stored_filename = stored_filename
     /\ analyses[j].status \in {"pending", "processing"}}

\* C39 (as claimed): no two videos have the same stored filename, and no
\* step changes the content of the stored file of a job that is pending or
\* processing.
C39_NoUploadOverwrites ==
  /\ [](\A v, w \in DOMAIN videos :
          videos[v].stored_filename = videos[w].stored_filename => v = w)
  /\ [][\A f \in DOMAIN files :
          files'[f] # files[f] => UnfinishedJobsOf(f) = {}]_vars

\* C40: the log of every job that has a task begins with the two upload
\* messages, at indices 0 and 1; when the task is about to run its first
\* statement the log holds exactly these two; no step changes the first two
\* messages, so every message of the pipeline has a higher index; the id of
\* every accepted submission has a log entry.
C40_UploadMessagesFirst ==
  /\ [](\A j \in DOMAIN pc :
          /\ j \in DOMAIN progress_updates
          /\ Len(progress_updates[j]) >= 2
          /\ progress_updates[j][1] =
               MsgUploading(videos[analyses[j].video_id].original_filename)
          /\ progress_updates[j][2] = MsgUploaded
          /\ pc[j] = "L137" => Len(progress_updates[j]) = 2)
  /\ [][\A j \in DOMAIN pc :
          /\ SubSeq(progress_updates'[j], 1, 2) = SubSeq(progress_updates[j], 1, 2)
          /\ pc'[j] # pc[j] => Len(progress_updates'[j]) >= Len(progress_updates[j])]_vars
  /\ []((/\ response # None
         /\ response[1].request.op = "analyze_video"
         /\ response[1].code = 200)
          => response[1].body.analysis_id \in DOMAIN progress_updates)

\* The task of the second job is about to start with the two upload messages
\* in its log, while the first job has logged messages of its pipeline.
C40_Witness ==
  /\ DOMAIN pc = {1, 2}
  /\ pc[2] = "L137"
  /\ Len(progress_updates[2]) = 2
  /\ Len(progress_updates[1]) > 2
  /\ response[1].body.analysis_id = 2

====
